---- MODULE Spec2Model ----
(***************************************************************************)
(* EagleView imagery service (src/unnamed/part_001): the OAuth token       *)
(* cache, the two-step capture discovery, the concurrent tile fan-out and  *)
(* the compositor, as state machines; with them the HTTP entry points, the *)
(* rebate estimate of generateProposal and the demo client.                *)
(*                                                                         *)
(* Specifications:                                                         *)
(*   SpecTok   concurrent callers of getAccessToken                        *)
(*   Spec      one invocation of getPropertyAerialImage, every             *)
(*             interleaving of its tile responses                          *)
(*   SpecOrch  one invocation under every caller option, latitude and      *)
(*             provider body, the tile responses of a grid arriving        *)
(*             together                                                    *)
(*   SpecGen   the imagery step of generateProposal (src/geminiService.ts) *)
(*             around one such invocation                                  *)
(*   SpecFn    the tile mathematics as pure functions of their inputs      *)
(*   SpecLive  Spec on a network whose requests settle                     *)
(*   SpecHas   one call of hasImageryAt                                    *)
(*   SpecPair  two interleaved invocations sharing the token cache         *)
(*   SpecSrv   one request at src/server.ts or src/api/generate.ts         *)
(*   SpecClient the demo client (src/unnamed/part_000) under its handlers  *)
(*   SpecRebate estimateRebate and the net estimate of generateProposal    *)
(***************************************************************************)
EXTENDS Integers, Sequences, FiniteSets, TLC

\* ------------------------------------------------------------------ bounds
MaxCallers == 3
MaxTicks == 1
MaxGrid == 2
MaxCaptures == 2

\* One step of the clock: an hour, in milliseconds.
TickMs == 3600 * 1000

\* expires_in values (seconds) the provider may report.
ExpiresInChoices == {300, 3600}

\* ------------------------------------------------------- program constants
NoToken == 0
TokenBufferMs == 300000
TileSize == 256
DefaultZoom == 19
DefaultGridSize == 4

\* An option the caller omits, a JSON field the provider leaves out.
Absent == -1

VARIABLES
    now,             \* Date.now(), in ms
    cachedToken,     \* module-level cachedToken (NoToken = null)
    tokenExpiresAt,  \* module-level tokenExpiresAt
    tokenRequests,   \* number of token-exchange requests issued so far
    cpc,             \* SpecTok: each caller's position in getAccessToken
    creq,            \* SpecTok: the exchange request a caller awaits
    cret,            \* SpecTok: the token getAccessToken returned to a caller
    cgroup,          \* SpecTok: the first caller of the overlapping exchanges a caller joined
    pc,              \* Spec: position of getPropertyAerialImage
    gridSize,        \* Spec: the gridSize option of the invocation
    bearer,          \* Spec: the token the current stage's getAccessToken returned
    discovery,       \* Spec: the result of discoverOrthoImage
    tiles,           \* Spec: tile offset <<dx, dy>> -> state of its fetchTile task
    stitch,          \* Spec: outcome of the sharp composite/encode step
    image,           \* Spec: what fetchPropertyImage returned
    result,          \* Spec: what getPropertyAerialImage returned or threw
    authFailed,      \* Spec: the stage whose token exchange was refused ("no": none)
    log,             \* Spec: provider requests issued, in order
    latitude,        \* the latitude argument of the invocation
    options,         \* the options argument: zoom and gridSize as the caller gave them
    zoom,            \* getPropertyAerialImage's zoom, line 430
    response,        \* SpecOrch: the rank/location body discoverOrthoImage parsed
    gen,             \* SpecGen: generateProposal's inputs, position, imageContent, imageSource
    geo,             \* SpecFn: a point, zoom and gridSize, and the values computed from them
    has,             \* SpecHas: position of hasImageryAt and the value it returned
    world,           \* SpecPair: what the provider answers to each request of the run
    inv,             \* SpecPair: the locals of each of two getPropertyAerialImage invocations
    srv,             \* SpecSrv: one HTTP request at one of the two entry points
    client,          \* SpecClient: the demo client's state object and what it last rendered
    proposal         \* SpecRebate: a parsed proposal's city, grass area and total, and its rebate

tokVars == <<now, cachedToken, tokenExpiresAt, tokenRequests>>
callerVars == <<cpc, creq, cret, cgroup>>
pipeVars == <<pc, gridSize, bearer, discovery, tiles, stitch, image, result, authFailed, log>>
callVars == <<latitude, options, zoom>>
appVars == <<has, world, inv, srv, client, proposal>>
vars == <<now, cachedToken, tokenExpiresAt, tokenRequests, cpc, creq, cret, cgroup,
          pc, gridSize, bearer, discovery, tiles, stitch, image, result, authFailed, log,
          latitude, options, zoom, response, gen, geo, appVars>>

\* ------------------------------------------------------------ token cache

\* A getAccessToken whose expiry comparison is the wrong way round.
TokenValidInverted(tok, exp, t) == tok # NoToken /\ t > exp - TokenBufferMs

\* getAccessToken, line 110: the cached token is served while it is more than
\* five minutes from expiry.
TokenValid(tok, exp, t) == tok # NoToken /\ t < exp - TokenBufferMs

\* getAccessToken, line 135.
NewExpiry(t, expiresIn) == t + expiresIn * 1000

\* A cache write that replaces the token and keeps the expiry it finds.
CacheWriteTokenOnly(tok, expiresIn) ==
    /\ cachedToken' = tok
    /\ tokenExpiresAt' = tokenExpiresAt

\* getAccessToken, lines 133-135: the response's token and expiry replace the cache.
CacheWrite(tok, expiresIn) ==
    /\ cachedToken' = tok
    /\ tokenExpiresAt' = NewExpiry(now, expiresIn)

Callers == 1..MaxCallers

\* The clock advances between any two events.
Tick ==
    /\ now < MaxTicks * TickMs
    /\ now' = now + TickMs
    /\ UNCHANGED <<cachedToken, tokenExpiresAt, tokenRequests>>

\* Overlapping exchanges: a caller that starts an exchange while another is in
\* flight joins that one's group, otherwise it starts a group of its own.
GroupOf(c) ==
    IF \E d \in Callers : cpc[d] = "waiting"
    THEN cgroup[CHOOSE d \in Callers : cpc[d] = "waiting"]
    ELSE c

\* getAccessToken, lines 108-125: return the cached token, or send the exchange.
CallGetAccessToken(c) ==
    /\ cpc[c] = "idle"
    /\ IF TokenValid(cachedToken, tokenExpiresAt, now)
       THEN /\ cpc' = [cpc EXCEPT ![c] = "returned"]
            /\ cret' = [cret EXCEPT ![c] = cachedToken]
            /\ UNCHANGED <<tokenRequests, creq, cgroup>>
       ELSE /\ tokenRequests' = tokenRequests + 1
            /\ cpc' = [cpc EXCEPT ![c] = "waiting"]
            /\ creq' = [creq EXCEPT ![c] = tokenRequests + 1]
            /\ cgroup' = [cgroup EXCEPT ![c] = GroupOf(c)]
            /\ UNCHANGED cret
    /\ UNCHANGED <<now, cachedToken, tokenExpiresAt>>

\* getAccessToken, lines 133-137: a success response; each exchange yields a
\* token of its own (the request's number).
ExchangeOk(c) ==
    /\ cpc[c] = "waiting"
    /\ \E e \in ExpiresInChoices : CacheWrite(creq[c], e)
    /\ cpc' = [cpc EXCEPT ![c] = "returned"]
    /\ cret' = [cret EXCEPT ![c] = creq[c]]
    /\ UNCHANGED <<now, tokenRequests, creq, cgroup>>

\* A refused exchange that empties the cache before it throws.
ExchangeFailClearing(c) ==
    /\ cpc[c] = "waiting"
    /\ cpc' = [cpc EXCEPT ![c] = "failed"]
    /\ cachedToken' = NoToken
    /\ tokenExpiresAt' = 0
    /\ UNCHANGED <<now, tokenRequests, creq, cret, cgroup>>

\* getAccessToken, lines 127-131: a non-success response throws.
ExchangeFail(c) ==
    /\ cpc[c] = "waiting"
    /\ cpc' = [cpc EXCEPT ![c] = "failed"]
    /\ UNCHANGED <<tokVars, creq, cret, cgroup>>

TokInit ==
    /\ now = 0
    /\ cachedToken = NoToken
    /\ tokenExpiresAt = 0
    /\ tokenRequests = 0

CallerInit ==
    /\ cpc = [c \in Callers |-> "idle"]
    /\ creq = [c \in Callers |-> 0]
    /\ cret = [c \in Callers |-> NoToken]
    /\ cgroup = [c \in Callers |-> 0]

NoImage == [kind |-> "none", width |-> 0, layers |-> {}, bytes |-> <<>>]
NoDiscovery ==
    [kind |-> "none", imageUrn |-> 0, captureDate |-> "", gsdMeters |-> 0, maxZoom |-> 0]

PipeInit ==
    /\ pc = "idle"
    /\ gridSize = 0
    /\ bearer = NoToken
    /\ discovery = NoDiscovery
    /\ tiles = <<>>
    /\ stitch = "none"
    /\ image = NoImage
    /\ result = [kind |-> "pending"]
    /\ authFailed = "no"
    /\ log = <<>>

NoOptions == [zoom |-> Absent, gridSize |-> Absent]
NoResponse == [present |-> FALSE, captures |-> <<>>]

\* No invocation of getPropertyAerialImage has been made.
CallInit ==
    /\ latitude = 0
    /\ options = NoOptions
    /\ zoom = 0
    /\ response = NoResponse

\* generateProposal has not reached its imagery step.
NoGen ==
    [pc |-> "idle", userImage |-> FALSE, clientId |-> "", clientSecret |-> "",
     location |-> FALSE, imageContent |-> "none", imageSource |-> "none"]

\* Nothing computed from the point (lat, lng) at zoom and gridSize.
GeoInput(lat, lng, z, g) ==
    [pc |-> "input", lat |-> lat, lng |-> lng, zoom |-> z, gridSize |-> g,
     center |-> [x |-> 0, y |-> 0],
     corner |-> [lat |-> 0, lng |-> [num |-> 0, den |-> 1]],
     requested |-> {},
     mpp |-> [m |-> 0, e |-> 0],
     coverage |-> 0]

\* hasImageryAt has not been called.
NoHas == [pc |-> "idle", value |-> FALSE]

\* The two invocations of SpecPair, each for a point of its own.
Invocations == {1, 2}

\* The rank/location body the provider has for the point of invocation i: a
\* capture with an image of that point, or none.
RankBody(i, kind) ==
    IF kind = "capture"
    THEN [present |-> TRUE,
          captures |-> <<[start_date |-> "2024-06-01",
                          orthos |-> [present |-> TRUE,
                                      images |-> <<[urn |-> 10 * i + 1, gsd |-> 18,
                                                    maxZoom |-> 17 + i]>>]]>>]
    ELSE [present |-> TRUE, captures |-> <<>>]

\* The orthomosaics/search body the provider has for that point.
MosaicBody(i, kind) ==
    IF kind = "mosaic" THEN [present |-> TRUE, orthomosaics |-> <<[urn |-> 10 * i + 7]>>]
    ELSE [present |-> TRUE, orthomosaics |-> <<>>]

\* A provider: the token endpoint grants or refuses, with one expires_in, and
\* each point has a capture, only an orthomosaic, or nothing, and a tile or not.
Worlds ==
    [tokenUp : BOOLEAN,
     expiresIn : ExpiresInChoices,
     imagery : [Invocations -> {"capture", "mosaic", "nothing"}],
     tile : [Invocations -> BOOLEAN]]

NoWorld ==
    [tokenUp |-> TRUE, expiresIn |-> 3600,
     imagery |-> [i \in Invocations |-> "nothing"],
     tile |-> [i \in Invocations |-> FALSE]]

\* The locals of an invocation that has not been made.
NoInvocation ==
    [pc |-> "idle", req |-> 0, token |-> NoToken, discovery |-> NoDiscovery,
     result |-> [kind |-> "pending"]]

\* No request has reached an entry point.
NoAddress == [kind |-> "missing", num |-> 0, text |-> <<>>]
NoMessage == [has429 |-> FALSE, exhausted |-> FALSE, apiKey |-> FALSE]
NoRequest ==
    [pc |-> "idle", entry |-> "express", method |-> "POST", body |-> FALSE,
     address |-> NoAddress, called |-> FALSE, argument |-> <<>>,
     thrown |-> FALSE, message |-> NoMessage, status |-> 0, responses |-> 0]

\* The demo client after its script has loaded (part_000, lines 5-10): state
\* as declared, no request in flight, no handler called, nothing rendered.
NoRebate == [eligible |-> FALSE, estimatedRebate |-> 0]
NoProposal == [loaded |-> FALSE, items |-> <<>>, rebateInfo |-> NoRebate]
NoTotals == [subtotal |-> 0, rebate |-> 0, tax |-> 0, net |-> 0]
ClientInit ==
    [step |-> 1, proposal |-> NoProposal, enabledItems |-> <<>>, imageData |-> FALSE,
     pending |-> 0, last |-> "load", arg |-> 0, totals |-> NoTotals]

\* A proposal generateProposal has parsed and not yet enriched
\* (src/geminiService.ts, lines 516-517); amounts in tenths of a dollar.
ParsedProposal(city, grass, total) ==
    [pc |-> "parsed", city |-> city, existingGrassSqFt |-> grass, totalEstimate |-> total,
     eligible |-> FALSE, estimatedRebate |-> 0, netEstimateAfterRebate |-> 0]

AppInit ==
    /\ has = NoHas
    /\ world = NoWorld
    /\ inv = [i \in Invocations |-> NoInvocation]
    /\ srv = NoRequest
    /\ client = ClientInit
    /\ proposal = ParsedProposal("Phoenix", 0, 0)

Init ==
    /\ TokInit /\ CallerInit /\ PipeInit /\ CallInit
    /\ gen = NoGen
    /\ geo = GeoInput(0, 0, 0, 1)
    /\ AppInit

TokNext ==
    \/ \E c \in Callers : CallGetAccessToken(c) /\ UNCHANGED <<pipeVars, callVars, response, gen, geo, appVars>>
    \/ \E c \in Callers : ExchangeOk(c) /\ UNCHANGED <<pipeVars, callVars, response, gen, geo, appVars>>
    \/ \E c \in Callers : ExchangeFail(c) /\ UNCHANGED <<pipeVars, callVars, response, gen, geo, appVars>>
    \/ Tick /\ UNCHANGED <<callerVars, pipeVars, callVars, response, gen, geo, appVars>>

SpecTok == Init /\ [][TokNext]_vars

\* --------------------------------------------------------------- provider

\* Ortho images of a discovery response: urn, calculated_gsd.value (mm) and
\* zoom_range.maximum_zoom_level, either of which may be absent.
Images ==
    { [urn |-> 1, gsd |-> 18, maxZoom |-> 19],
      [urn |-> 2, gsd |-> Absent, maxZoom |-> Absent] }

\* The same, and an image whose two values are present and 0.
ImagesWithZero == Images \cup { [urn |-> 3, gsd |-> 0, maxZoom |-> 0] }

\* capture.orthos: null, or an object with an image list that is empty or holds
\* one image (max_images_per_view: 1).
OrthosOver(imgs) ==
    {[present |-> FALSE, images |-> <<>>], [present |-> TRUE, images |-> <<>>]}
        \cup {[present |-> TRUE, images |-> <<i>>] : i \in imgs}

OrthosChoices == OrthosOver(Images)

CaptureChoices ==
    [start_date : {"2023-03-01", "2024-06-01"}, orthos : OrthosChoices]

\* The body of a success response of rank/location: captures missing, or up to
\* MaxCaptures captures.
DiscoveryDataOver(caps) ==
    {[present |-> FALSE, captures |-> <<>>]}
        \cup {[present |-> TRUE, captures |-> cs] :
                cs \in UNION {[1..n -> caps] : n \in 0..MaxCaptures}}

DiscoveryData == DiscoveryDataOver(CaptureChoices)

\* The bodies SpecOrch answers with.
OrchCaptures ==
    [start_date : {"2023-03-01", "2024-06-01"}, orthos : OrthosOver(ImagesWithZero)]

OrchData == DiscoveryDataOver(OrchCaptures)

\* The body of a success response of orthomosaics/search (page size 1).
OrthomosaicData ==
    {[present |-> FALSE, orthomosaics |-> <<>>],
     [present |-> TRUE, orthomosaics |-> <<>>],
     [present |-> TRUE, orthomosaics |-> <<[urn |-> 7]>>],
     [present |-> TRUE, orthomosaics |-> <<[urn |-> 7], [urn |-> 8]>>]}

\* ----------------------------------------------------------- discovery

\* JavaScript's a || b on a number that may be absent: 0 is falsy too.
OrDefault(v, d) == IF v = Absent \/ v = 0 THEN d ELSE v

\* discoverOrthoImage, line 231: data.captures || [].
CapturesOf(data) == IF data.present THEN data.captures ELSE <<>>

\* discoverOrthoImage, line 232: capture.orthos?.images || [].
OrthoImages(cap) == IF cap.orthos.present THEN cap.orthos.images ELSE <<>>

\* A selection that keeps the last capture with a non-empty ortho list.
LastQualifying(caps) ==
    IF \E i \in DOMAIN caps : Len(OrthoImages(caps[i])) > 0
    THEN CHOOSE i \in DOMAIN caps :
            /\ Len(OrthoImages(caps[i])) > 0
            /\ \A j \in DOMAIN caps : j > i => Len(OrthoImages(caps[j])) = 0
    ELSE 0

\* discoverOrthoImage, lines 231-242: the first capture with a non-empty ortho list
\* (0: none).
FirstQualifying(caps) ==
    IF \E i \in DOMAIN caps : Len(OrthoImages(caps[i])) > 0
    THEN CHOOSE i \in DOMAIN caps :
            /\ Len(OrthoImages(caps[i])) > 0
            /\ \A j \in DOMAIN caps : j < i => Len(OrthoImages(caps[j])) = 0
    ELSE 0

\* discoverOrthoImage, lines 234-240 (gsd in mm: 0.02 m = 20).
OrthoResult(cap) ==
    [kind |-> "ortho",
     imageUrn |-> OrthoImages(cap)[1].urn,
     captureDate |-> cap.start_date,
     gsdMeters |-> OrDefault(OrthoImages(cap)[1].gsd, 20),
     maxZoom |-> OrDefault(OrthoImages(cap)[1].maxZoom, 21)]

\* discoverOrthomosaic, line 288: data.orthomosaics?.length > 0.
OrthomosaicHit(data) == data.present /\ Len(data.orthomosaics) > 0

\* A fallback result built from the last orthomosaic of the page.
OrthomosaicResultLast(data) ==
    [kind |-> "orthomosaic",
     imageUrn |-> data.orthomosaics[Len(data.orthomosaics)].urn,
     captureDate |-> "unknown",
     gsdMeters |-> 20,
     maxZoom |-> 21]

\* discoverOrthomosaic, lines 289-294.
OrthomosaicResult(data) ==
    [kind |-> "orthomosaic",
     imageUrn |-> data.orthomosaics[1].urn,
     captureDate |-> "unknown",
     gsdMeters |-> 20,
     maxZoom |-> 21]

\* ---------------------------------------------------------------- tiles

\* fetchPropertyImage, line 348.
Half(g) == g \div 2

\* fetchPropertyImage, lines 354-366: the offsets the two loops visit, in order
\* (dy outer, dx inner).
Side(g) == 2 * Half(g) + 1

TileOrder(g) ==
    [k \in 1..(Side(g) * Side(g)) |->
        <<((k - 1) % Side(g)) - Half(g), ((k - 1) \div Side(g)) - Half(g)>>]

Offsets(g) == {TileOrder(g)[k] : k \in DOMAIN TileOrder(g)}

\* The bytes the provider serves for a tile: each tile has content of its own.
TileBytes(d) == <<"jpeg", d[1], d[2]>>

\* A layer placed at its offset from the centre, the shift by half forgotten.
LayerUnshifted(d, g) ==
    [input |-> TileBytes(d),
     left |-> d[1] * TileSize,
     top |-> d[2] * TileSize]

\* fetchPropertyImage, lines 384-390: one layer per valid tile.
Layer(d, g) ==
    [input |-> TileBytes(d),
     left |-> (d[1] + Half(g)) * TileSize,
     top |-> (d[2] + Half(g)) * TileSize]

\* A filter that lets the absent tiles through with the fetched ones.
ValidTilesSettled(ts) == {d \in DOMAIN ts : ts[d].st \in {"ok", "absent"}}

\* fetchPropertyImage, line 369: the tiles that are not null.
ValidTiles(ts) == {d \in DOMAIN ts : ts[d].st = "ok"}

\* A join that waits for every task and takes a rejected one for an absent tile
\* (Promise.allSettled).
PromiseAllSettling(ts) ==
    IF \A d \in DOMAIN ts : ts[d].st \in {"ok", "absent", "rejected"} THEN "fulfilled"
    ELSE "pending"

\* A join that is fulfilled by the first task that is (Promise.race).
PromiseAllFirst(ts) ==
    IF \E d \in DOMAIN ts : ts[d].st = "rejected" THEN "rejected"
    ELSE IF \E d \in DOMAIN ts : ts[d].st \in {"ok", "absent"} THEN "fulfilled"
    ELSE "pending"

\* A join that stays pending unless every task delivered a tile.
PromiseAllOnlyTiles(ts) ==
    IF \E d \in DOMAIN ts : ts[d].st = "rejected" THEN "rejected"
    ELSE IF \A d \in DOMAIN ts : ts[d].st = "ok" THEN "fulfilled"
    ELSE "pending"

\* Promise.all over the tile tasks, line 368: rejected as soon as one task is,
\* fulfilled once every task is.
PromiseAll(ts) ==
    IF \E d \in DOMAIN ts : ts[d].st = "rejected" THEN "rejected"
    ELSE IF \A d \in DOMAIN ts : ts[d].st \in {"ok", "absent"} THEN "fulfilled"
    ELSE "pending"


\* ------------------------------------------------------------- geometry

\* Latitudes of the invocation, in degrees.
Latitudes == {0, 33}

\* 156543.03392 * Math.cos(lat * PI / 180) of metersPerPixel, in centimetres:
\* 156543.03392 m at the equator, 131288.04 m at 33 degrees, 16363.20 m at 84
\* degrees, north or south.
GroundCm(lat) ==
    IF lat = 0 THEN 15654303
    ELSE IF lat \in {33, -33} THEN 13128804
    ELSE 1636320

RECURSIVE Pow2(_)
Pow2(n) == IF n = 0 THEN 1 ELSE 2 * Pow2(n - 1)

\* A resolution that is the same at every zoom.
MetersPerPixelFlat(lat, z) == [m |-> GroundCm(lat), e |-> 0]

\* A length m * 2^(-e) cm, held as the float holds it: division by Math.pow(2,
\* zoom) and multiplication by 256 move the exponent and leave the mantissa.
\* metersPerPixel, lines 169-173.
MetersPerPixel(lat, z) == [m |-> GroundCm(lat), e |-> z]

\* getPropertyAerialImage, line 458: mpp * gridSize ...
Times(v, k) == [m |-> v.m * k, e |-> v.e]

\* A product that forgets the tile's 256 pixels.
TimesOne(v) == v

\* ... * 256.
Times256(v) == [m |-> v.m, e |-> v.e - 8]

\* Math.round(n / d) for n >= 0, d > 0: the nearest integer, halves upward.
RoundDiv(n, d) == (2 * n + d) \div (2 * d)

\* getPropertyAerialImage, line 469: Math.round of a length, in metres.
MathRound(v) ==
    IF v.e >= 0 THEN RoundDiv(v.m, 100 * Pow2(v.e))
    ELSE (v.m \div 100) * Pow2(0 - v.e) + RoundDiv((v.m % 100) * Pow2(0 - v.e), 100)

\* Whether the length a is shorter than the length b.
Shorter(a, b) ==
    LET top == IF a.e > b.e THEN a.e ELSE b.e
    IN a.m * Pow2(top - a.e) < b.m * Pow2(top - b.e)

\* ------------------------------------------------------ slippy-map tiles

\* A latitude's Mercator ordinate (1 - ln(tan + sec) / PI) / 2 of latLngToTile,
\* line 152, in units of 2^-24 and rounded down: 0 at 85.0511 degrees north,
\* 2^23 at the equator.
MercatorUnits(lat) ==
    IF lat = 84 THEN 515056
    ELSE IF lat = 33 THEN 6757857
    ELSE IF lat = 0 THEN 8388608
    ELSE 16262159

\* A tile mapping that rounds the column to the nearest tile.
LatLngToTileNearest(lat, lng, z) ==
    [x |-> RoundDiv((lng + 180) * Pow2(z), 360),
     y |-> MercatorUnits(lat) \div Pow2(24 - z)]

\* latLngToTile, lines 142-154: n = 2^zoom, x = floor((lng + 180) / 360 * n),
\* y = floor(ordinate * n).
LatLngToTile(lat, lng, z) ==
    [x |-> ((lng + 180) * Pow2(z)) \div 360,
     y |-> MercatorUnits(lat) \div Pow2(24 - z)]

\* tileToLatLng, lines 156-166: the north-west corner of tile (x, y). Its
\* longitude x / n * 360 - 180 is held as a fraction of degrees, its latitude
\* atan(sinh(PI * (1 - 2y / n))) by its Mercator ordinate y / n, in units of 2^-24.
TileToLatLng(x, y, z) ==
    [lat |-> y * Pow2(24 - z),
     lng |-> [num |-> x * 360 - 180 * Pow2(z), den |-> Pow2(z)]]

\* -------------------------------------------------------------- pipeline

\* A request that leaves the image urn out.
ReqNoUrn(kind, tok, urn, z, d) == [req |-> kind, token |-> tok, urn |-> 0, z |-> z, at |-> d]

\* A request to the provider: its kind, bearer token and, for a tile (fetchTile,
\* line 311), the image urn, the zoom and the offset of the tile from the centre.
Req(kind, tok, urn, z, d) == [req |-> kind, token |-> tok, urn |-> urn, z |-> z, at |-> d]

\* expires_in of a token response. With a grid of more than one tile the model
\* follows only runs in which the token outlives the invocation (long-lived
\* tokens, no clock step), so that the tiles of such a grid are fetched with the
\* cached token; single-tile grids are followed under every lifetime and clock.
TtlFor(g) ==
    IF g = 1 THEN ExpiresInChoices
    ELSE {e \in ExpiresInChoices : e * 1000 > TokenBufferMs}

PipeTick ==
    /\ gridSize = 1
    /\ Tick
    /\ UNCHANGED <<callerVars, pipeVars>>

\* A stage that sends its request with whatever the cache holds, without
\* waiting for getAccessToken.
AcquireUnchecked(tokPc, waitPc, req) ==
    /\ pc' = waitPc
    /\ bearer' = cachedToken
    /\ log' = Append(log, Req(req, cachedToken, 0, 0, <<>>))
    /\ UNCHANGED tokenRequests

\* const token = await getAccessToken() followed by the stage's request
\* (lines 190-196, 260-265): with a valid cached token the request goes out at
\* once, otherwise the exchange is sent first.
Acquire(tokPc, waitPc, req) ==
    IF TokenValid(cachedToken, tokenExpiresAt, now)
    THEN /\ pc' = waitPc
         /\ bearer' = cachedToken
         /\ log' = Append(log, Req(req, cachedToken, 0, 0, <<>>))
         /\ UNCHANGED tokenRequests
    ELSE /\ pc' = tokPc
         /\ tokenRequests' = tokenRequests + 1
         /\ log' = Append(log, Req("token", NoToken, 0, 0, <<>>))
         /\ UNCHANGED bearer

\* getPropertyAerialImage, lines 422-434, into discoverOrthoImage, line 190.
Start(lat, opts) ==
    /\ pc = "idle"
    /\ latitude' = lat
    /\ options' = opts
    /\ zoom' = OrDefault(opts.zoom, DefaultZoom)
    /\ gridSize' = OrDefault(opts.gridSize, DefaultGridSize)
    /\ Acquire("discTok", "discWait", "discovery")
    /\ UNCHANGED <<now, cachedToken, tokenExpiresAt, callerVars,
                   discovery, tiles, stitch, image, result, authFailed>>

\* getAccessToken, lines 133-137, in discoverOrthoImage or discoverOrthomosaic:
\* the exchange succeeded and the stage's request is sent with the new token.
StageExchangeOk ==
    /\ pc \in {"discTok", "mosTok"}
    /\ \E e \in TtlFor(gridSize) : CacheWrite(tokenRequests, e)
    /\ bearer' = tokenRequests
    /\ pc' = IF pc = "discTok" THEN "discWait" ELSE "mosWait"
    /\ log' = Append(log, Req(IF pc = "discTok" THEN "discovery" ELSE "orthomosaic",
                              tokenRequests, 0, 0, <<>>))
    /\ UNCHANGED <<now, tokenRequests, callerVars,
                   gridSize, discovery, tiles, stitch, image, result, authFailed>>

\* getAccessToken, lines 127-131: the throw crosses discoverOrthoImage and
\* getPropertyAerialImage, neither of which catches.
StageExchangeFail ==
    /\ pc \in {"discTok", "mosTok"}
    /\ pc' = "done"
    /\ result' = [kind |-> "exception"]
    /\ authFailed' = IF pc = "discTok" THEN "discovery" ELSE "orthomosaic"
    /\ UNCHANGED <<tokVars, callerVars, gridSize, bearer, discovery, tiles, stitch, image, log>>

\* A failure path that throws where the code returns null.
ReturnNoneThrowing ==
    /\ pc' = "done"
    /\ result' = [kind |-> "exception"]

\* getPropertyAerialImage, lines 435-440 and 454: a null discovery or image
\* buffer ends the call with null.
ReturnNone ==
    /\ pc' = "done"
    /\ result' = [kind |-> "none"]

\* A clamp that lets the requested zoom through.
EffectiveZoomUnclamped(z, disc) == z

\* getPropertyAerialImage, line 443: Math.min(zoom, discovery.maxZoom).
EffectiveZoom(z, disc) == IF z < disc.maxZoom THEN z ELSE disc.maxZoom

\* getPropertyAerialImage, lines 454-470.
ResultOf(img, disc, g) ==
    IF img.kind = "none" THEN [kind |-> "none"]
    ELSE [kind |-> "image",
          imageData |-> img,
          mimeType |-> "image/jpeg",
          source |-> "eagleview",
          imageUrn |-> disc.imageUrn,
          captureDate |-> disc.captureDate,
          gsdMeters |-> disc.gsdMeters,
          zoomLevel |-> EffectiveZoom(zoom, disc),
          tileCount |-> g * g,
          coverageMeters |->
              MathRound(Times256(Times(MetersPerPixel(latitude, EffectiveZoom(zoom, disc)), g)))]

\* fetchPropertyImage, lines 347-366: every fetchTile task is started inside the
\* loops, and each runs to its first suspension: the tile request with a valid
\* cached token (fetchTile, lines 309-318), the token exchange otherwise.
LaunchTiles(disc, lg) ==
    LET order == TileOrder(gridSize)
        n == Len(order)
        idx(d) == CHOOSE k \in 1..n : order[k] = d
        cached == TokenValid(cachedToken, tokenExpiresAt, now)
    IN  /\ pc' = "tiles"
        /\ tiles' = [d \in Offsets(gridSize) |->
                        IF cached THEN [st |-> "fetch", req |-> 0]
                        ELSE [st |-> "tok", req |-> tokenRequests + idx(d)]]
        /\ tokenRequests' = IF cached THEN tokenRequests ELSE tokenRequests + n
        /\ log' = lg \o [k \in 1..n |->
                            IF cached
                            THEN Req("tile", cachedToken, disc.imageUrn,
                                     EffectiveZoom(zoom, disc), order[k])
                            ELSE Req("token", NoToken, 0, 0, <<>>)]

\* discoverOrthoImage, lines 221-227: a non-success response.
DiscoveryNotOk ==
    /\ pc = "discWait"
    /\ ReturnNone
    /\ UNCHANGED <<tokVars, callerVars, gridSize, bearer, discovery, tiles, stitch,
                   image, authFailed, log>>

\* discoverOrthoImage, lines 229-245: a success response. A qualifying capture
\* is returned and getPropertyAerialImage goes on to fetchPropertyImage
\* (lines 443-452); otherwise discoverOrthomosaic is entered (line 260).
DiscoveryOk(data) ==
    /\ pc = "discWait"
    /\ LET caps == CapturesOf(data)
           i == FirstQualifying(caps)
       IN IF i # 0
          THEN /\ discovery' = OrthoResult(caps[i])
               /\ LaunchTiles(OrthoResult(caps[i]), log)
               /\ UNCHANGED bearer
          ELSE /\ Acquire("mosTok", "mosWait", "orthomosaic")
               /\ UNCHANGED <<discovery, tiles>>
    /\ UNCHANGED <<now, cachedToken, tokenExpiresAt, callerVars,
                   gridSize, stitch, image, result, authFailed>>

\* discoverOrthomosaic, line 285: a non-success response.
OrthomosaicNotOk ==
    /\ pc = "mosWait"
    /\ ReturnNone
    /\ UNCHANGED <<tokVars, callerVars, gridSize, bearer, discovery, tiles, stitch,
                   image, authFailed, log>>

\* discoverOrthomosaic, lines 287-297: a success response.
OrthomosaicOk(data) ==
    /\ pc = "mosWait"
    /\ IF OrthomosaicHit(data)
       THEN /\ discovery' = OrthomosaicResult(data)
            /\ LaunchTiles(OrthomosaicResult(data), log)
            /\ UNCHANGED result
       ELSE /\ ReturnNone
            /\ UNCHANGED <<discovery, tiles, tokenRequests, log>>
    /\ UNCHANGED <<now, cachedToken, tokenExpiresAt, callerVars,
                   gridSize, bearer, stitch, image, authFailed>>

\* fetchTile, lines 309-318, after its token exchange succeeded.
TileExchangeOk(d) ==
    /\ d \in DOMAIN tiles
    /\ tiles[d].st = "tok"
    /\ \E e \in TtlFor(gridSize) : CacheWrite(tiles[d].req, e)
    /\ tiles' = [tiles EXCEPT ![d].st = "fetch"]
    /\ log' = Append(log, Req("tile", tiles[d].req, discovery.imageUrn,
                               EffectiveZoom(zoom, discovery), d))
    /\ UNCHANGED <<now, tokenRequests, callerVars,
                   pc, gridSize, bearer, discovery, stitch, image, result, authFailed>>

\* A single tile passed through the encoder on its way out.
RawTileReencoded(d) ==
    [kind |-> "tile", width |-> 0, layers |-> {}, bytes |-> <<"jpeg", "reencoded">>]

\* fetchPropertyImage, line 378.
RawTile(d) == [kind |-> "tile", width |-> 0, layers |-> {}, bytes |-> TileBytes(d)]

\* fetchPropertyImage, lines 381-405: the stitched canvas.
Composite(ts, g) ==
    [kind |-> "composite",
     width |-> g * TileSize,
     layers |-> {Layer(d, g) : d \in ValidTiles(ts)},
     bytes |-> <<>>]

\* A fallback that returns whichever tile has data.
CenterTileAny(ts, g) ==
    IF ValidTiles(ts) = {} THEN NoImage
    ELSE RawTile(CHOOSE d \in ValidTiles(ts) : \A e \in ValidTiles(ts) : e[1] < d[1] \/ (e[1] = d[1] /\ e[2] <= d[2]))

\* fetchPropertyImage, lines 408-409: the tile at grid position (half, half),
\* the one of offset (0, 0), if it has data.
CenterTile(ts, g) ==
    LET c == CHOOSE d \in DOMAIN ts :
                d[1] + Half(g) = Half(g) /\ d[2] + Half(g) = Half(g)
    IN IF ts[c].st = "ok" THEN RawTile(c) ELSE NoImage

\* fetchPropertyImage, lines 368-379: what a settling tile task resumes. While
\* Promise.all is pending, or once fetchPropertyImage has been left, nothing;
\* a rejection is thrown on through getPropertyAerialImage; a fulfilment runs
\* up to the composite (or to the return of null or of the single tile).
AwaitTiles(ts) ==
    IF pc # "tiles" \/ PromiseAll(ts) = "pending"
    THEN UNCHANGED <<pc, image, result>>
    ELSE IF PromiseAll(ts) = "rejected"
    THEN /\ pc' = "done"
         /\ result' = [kind |-> "exception"]
         /\ UNCHANGED image
    ELSE IF ValidTiles(ts) = {}
    THEN /\ ReturnNone
         /\ UNCHANGED image
    ELSE IF gridSize = 1 /\ Cardinality(ValidTiles(ts)) = 1
    THEN /\ pc' = "done"
         /\ image' = RawTile(CHOOSE d \in ValidTiles(ts) : TRUE)
         /\ result' = ResultOf(image', discovery, gridSize)
    ELSE /\ pc' = "stitch"
         /\ UNCHANGED <<image, result>>

\* fetchTile, line 309: getAccessToken threw, the task is rejected.
TileExchangeFail(d) ==
    /\ d \in DOMAIN tiles
    /\ tiles[d].st = "tok"
    /\ tiles' = [tiles EXCEPT ![d].st = "rejected"]
    /\ authFailed' = "tile"
    /\ AwaitTiles(tiles')
    /\ UNCHANGED <<tokVars, callerVars, gridSize, bearer, discovery, stitch, log>>

\* fetchTile, lines 320-325: the tile response; a non-success one yields null.
TileOutcome(ok) == IF ok THEN "ok" ELSE "absent"

\* A tile response whose failure cancels the requests still in flight.
TileResponseCancelling(d, ok) ==
    /\ d \in DOMAIN tiles
    /\ tiles[d].st = "fetch"
    /\ tiles' = [e \in DOMAIN tiles |->
                    IF e = d THEN [tiles[e] EXCEPT !.st = TileOutcome(ok)]
                    ELSE IF ~ok /\ tiles[e].st = "fetch"
                         THEN [tiles[e] EXCEPT !.st = "absent"]
                    ELSE tiles[e]]
    /\ AwaitTiles(tiles')
    /\ UNCHANGED <<tokVars, callerVars, gridSize, bearer, discovery, stitch, authFailed, log>>

TileResponse(d, ok) ==
    /\ d \in DOMAIN tiles
    /\ tiles[d].st = "fetch"
    /\ tiles' = [tiles EXCEPT ![d].st = TileOutcome(ok)]
    /\ AwaitTiles(tiles')
    /\ UNCHANGED <<tokVars, callerVars, gridSize, bearer, discovery, stitch, authFailed, log>>

\* fetchPropertyImage, lines 392-410: sharp composes and encodes, or throws and
\* the catch returns the centre tile; then getPropertyAerialImage, lines 454-470.
StitchDone(ok) ==
    /\ pc = "stitch"
    /\ pc' = "done"
    /\ stitch' = IF ok THEN "ok" ELSE "failed"
    /\ image' = IF ok THEN Composite(tiles, gridSize) ELSE CenterTile(tiles, gridSize)
    /\ result' = ResultOf(image', discovery, gridSize)
    /\ UNCHANGED <<tokVars, callerVars,
                   gridSize, bearer, discovery, tiles, authFailed, log>>

\* One invocation at latitude 33 with the zoom option omitted and a gridSize of
\* 1..MaxGrid.
Next ==
    \/ \E g \in 1..MaxGrid :
          Start(33, [zoom |-> Absent, gridSize |-> g]) /\ UNCHANGED <<response, gen, geo, appVars>>
    \/ StageExchangeOk /\ UNCHANGED <<callVars, response, gen, geo, appVars>>
    \/ StageExchangeFail /\ UNCHANGED <<callVars, response, gen, geo, appVars>>
    \/ DiscoveryNotOk /\ UNCHANGED <<callVars, response, gen, geo, appVars>>
    \/ \E data \in DiscoveryData : DiscoveryOk(data) /\ UNCHANGED <<callVars, response, gen, geo, appVars>>
    \/ OrthomosaicNotOk /\ UNCHANGED <<callVars, response, gen, geo, appVars>>
    \/ \E data \in OrthomosaicData : OrthomosaicOk(data) /\ UNCHANGED <<callVars, response, gen, geo, appVars>>
    \/ \E d \in DOMAIN tiles : TileExchangeOk(d) /\ UNCHANGED <<callVars, response, gen, geo, appVars>>
    \/ \E d \in DOMAIN tiles : TileExchangeFail(d) /\ UNCHANGED <<callVars, response, gen, geo, appVars>>
    \/ \E d \in DOMAIN tiles, ok \in BOOLEAN :
          TileResponse(d, ok) /\ UNCHANGED <<callVars, response, gen, geo, appVars>>
    \/ \E ok \in BOOLEAN : StitchDone(ok) /\ UNCHANGED <<callVars, response, gen, geo, appVars>>
    \/ PipeTick /\ UNCHANGED <<callVars, response, gen, geo, appVars>>

Spec == Init /\ [][Next]_vars

\* ------------------------------------------------------------- SpecLive

\* A request in flight settles: the token endpoint, the discovery or the
\* orthomosaic endpoint or a tile answers (or refuses), and the encoder run by
\* the awaited sharp call (lines 392-405) returns or throws.
Settles ==
    \/ StageExchangeOk /\ UNCHANGED <<callVars, response, gen, geo, appVars>>
    \/ StageExchangeFail /\ UNCHANGED <<callVars, response, gen, geo, appVars>>
    \/ DiscoveryNotOk /\ UNCHANGED <<callVars, response, gen, geo, appVars>>
    \/ /\ pc = "discWait"
       /\ \E data \in DiscoveryData :
             DiscoveryOk(data) /\ UNCHANGED <<callVars, response, gen, geo, appVars>>
    \/ OrthomosaicNotOk /\ UNCHANGED <<callVars, response, gen, geo, appVars>>
    \/ /\ pc = "mosWait"
       /\ \E data \in OrthomosaicData :
             OrthomosaicOk(data) /\ UNCHANGED <<callVars, response, gen, geo, appVars>>
    \/ \E d \in DOMAIN tiles : TileExchangeOk(d) /\ UNCHANGED <<callVars, response, gen, geo, appVars>>
    \/ \E d \in DOMAIN tiles : TileExchangeFail(d) /\ UNCHANGED <<callVars, response, gen, geo, appVars>>
    \/ \E d \in DOMAIN tiles, ok \in BOOLEAN :
          TileResponse(d, ok) /\ UNCHANGED <<callVars, response, gen, geo, appVars>>
    \/ \E ok \in BOOLEAN : StitchDone(ok) /\ UNCHANGED <<callVars, response, gen, geo, appVars>>

\* The grids of SpecLive: a single tile, and the nine tiles that a gridSize of
\* 2 or of 3 makes.
LiveGrids == {1, 2}

LiveNext ==
    \/ \E g \in LiveGrids :
          Start(33, [zoom |-> Absent, gridSize |-> g]) /\ UNCHANGED <<response, gen, geo, appVars>>
    \/ Settles
    \/ PipeTick /\ UNCHANGED <<callVars, response, gen, geo, appVars>>

\* One invocation on an event loop that runs every continuation whose awaited
\* request has settled, with a network on which a request in flight does not
\* stay unanswered for ever.
SpecLive == Init /\ [][LiveNext]_vars /\ WF_vars(Settles)

\* ------------------------------------------------------------- SpecOrch

\* The zoom and gridSize a caller may pass: omitted, 0, or a value in range.
\* The grids have more than one tile, so that the token outlives the invocation
\* (TtlFor) and no tile task has an exchange of its own to make.
ZoomOptions == {Absent, 0, 20}
GridOptions == {Absent, 0, 3}
OrchOptions == [zoom : ZoomOptions, gridSize : GridOptions]

\* fetchTile, lines 320-325, for every tile task in flight: the responses of
\* the grid arrive together, all of them success or all of them not.
TileBatch(ok) ==
    /\ pc = "tiles"
    /\ {d \in DOMAIN tiles : tiles[d].st = "fetch"} # {}
    /\ tiles' = [d \in DOMAIN tiles |->
                    IF tiles[d].st = "fetch"
                    THEN [tiles[d] EXCEPT !.st = TileOutcome(ok)]
                    ELSE tiles[d]]
    /\ AwaitTiles(tiles')
    /\ UNCHANGED <<tokVars, callerVars, gridSize, bearer, discovery, stitch, authFailed, log>>

\* One invocation under every option, latitude and rank/location body; the
\* body discoverOrthoImage parsed is kept in response.
OrchNext ==
    \/ \E lat \in Latitudes, opts \in OrchOptions : Start(lat, opts) /\ UNCHANGED <<response, gen, geo, appVars>>
    \/ StageExchangeOk /\ UNCHANGED <<callVars, response, gen, geo, appVars>>
    \/ StageExchangeFail /\ UNCHANGED <<callVars, response, gen, geo, appVars>>
    \/ DiscoveryNotOk /\ UNCHANGED <<callVars, response, gen, geo, appVars>>
    \/ \E data \in OrchData : DiscoveryOk(data) /\ response' = data /\ UNCHANGED <<callVars, gen, geo, appVars>>
    \/ OrthomosaicNotOk /\ UNCHANGED <<callVars, response, gen, geo, appVars>>
    \/ \E data \in OrthomosaicData : OrthomosaicOk(data) /\ UNCHANGED <<callVars, response, gen, geo, appVars>>
    \/ \E ok \in BOOLEAN : TileBatch(ok) /\ UNCHANGED <<callVars, response, gen, geo, appVars>>
    \/ \E ok \in BOOLEAN : StitchDone(ok) /\ UNCHANGED <<callVars, response, gen, geo, appVars>>

SpecOrch == Init /\ [][OrchNext]_vars

\* --------------------------------------------------------------- SpecGen

\* A gate that is content with either credential.
IsEagleViewConfiguredEither(id, secret) == id # "" \/ secret # ""

\* isEagleViewConfigured, lines 475-477: !!(config.clientId && config.clientSecret).
IsEagleViewConfigured(id, secret) == id # "" /\ secret # ""

\* The credentials the process was started with (lines 27-28): each the empty
\* string or not.
GenInit ==
    /\ TokInit /\ CallerInit /\ PipeInit /\ CallInit
    /\ gen \in {[NoGen EXCEPT !.clientId = id, !.clientSecret = secret] :
                  id \in {"", "id"}, secret \in {"", "secret"}}
    /\ geo = GeoInput(0, 0, 0, 1)
    /\ AppInit

\* generateProposal, lines 355-358 of src/geminiService.ts.
ImageSourceOf(user) == IF user THEN "user-uploaded" ELSE "none"

\* generateProposal, lines 355-366: imageSource is set, and with no image of
\* the user's and the provider configured, the coordinates are taken from the
\* location argument or awaited from geocodeAddress; with coordinates
\* getPropertyAerialImage is called with no options.
GenEnter(user, loc, lat) ==
    /\ gen.pc = "idle"
    /\ LET call == ~user /\ IsEagleViewConfigured(gen.clientId, gen.clientSecret)
       IN /\ gen' = [gen EXCEPT !.userImage = user,
                                !.location = loc,
                                !.imageContent = IF user THEN "user" ELSE "none",
                                !.imageSource = ImageSourceOf(user),
                                !.pc = IF ~call THEN "prompt"
                                       ELSE IF loc THEN "imagery" ELSE "geocode"]
          /\ IF call /\ loc THEN Start(lat, NoOptions)
             ELSE UNCHANGED <<tokVars, callerVars, pipeVars, callVars>>
    /\ UNCHANGED <<response, geo, appVars>>

\* generateProposal, lines 362-367: geocodeAddress returned coordinates or null
\* (it catches its own failures, lines 123-143).
Geocoded(found, lat) ==
    /\ gen.pc = "geocode"
    /\ gen' = [gen EXCEPT !.pc = IF found THEN "imagery" ELSE "prompt"]
    /\ IF found THEN Start(lat, NoOptions)
       ELSE UNCHANGED <<tokVars, callerVars, pipeVars, callVars>>
    /\ UNCHANGED <<response, geo, appVars>>

\* A continuation that lets an exception of getPropertyAerialImage through.
ResumedRethrowing(g, res) ==
    IF res.kind = "exception" THEN [g EXCEPT !.pc = "aborted"]
    ELSE [g EXCEPT !.pc = "prompt",
                   !.imageContent = IF res.kind = "image" THEN "eagleview" ELSE @,
                   !.imageSource = IF res.kind = "image" THEN "eagleview" ELSE @]

\* generateProposal, lines 364-382: with an image, imageContent and imageSource
\* are replaced; null, or an exception caught at line 379, leaves them; then
\* on to the parcel data and the prompt.
Resumed(g, res) ==
    [g EXCEPT !.pc = "prompt",
              !.imageContent = IF res.kind = "image" THEN "eagleview" ELSE @,
              !.imageSource = IF res.kind = "image" THEN "eagleview" ELSE @]

\* What the step that ends getPropertyAerialImage resumes in generateProposal.
GenAwait ==
    gen' = IF gen.pc = "imagery" /\ pc' = "done" THEN Resumed(gen, result') ELSE gen

\* generateProposal's imagery step around one invocation of
\* getPropertyAerialImage (default options: a grid of gridSize 4, whose tile
\* responses arrive together).
GenNext ==
    \/ \E user, loc \in BOOLEAN, lat \in Latitudes : GenEnter(user, loc, lat)
    \/ \E found \in BOOLEAN, lat \in Latitudes : Geocoded(found, lat)
    \/ StageExchangeOk /\ GenAwait /\ UNCHANGED <<callVars, response, geo, appVars>>
    \/ StageExchangeFail /\ GenAwait /\ UNCHANGED <<callVars, response, geo, appVars>>
    \/ DiscoveryNotOk /\ GenAwait /\ UNCHANGED <<callVars, response, geo, appVars>>
    \/ \E data \in DiscoveryData :
          DiscoveryOk(data) /\ GenAwait /\ UNCHANGED <<callVars, response, geo, appVars>>
    \/ OrthomosaicNotOk /\ GenAwait /\ UNCHANGED <<callVars, response, geo, appVars>>
    \/ \E data \in OrthomosaicData :
          OrthomosaicOk(data) /\ GenAwait /\ UNCHANGED <<callVars, response, geo, appVars>>
    \/ \E ok \in BOOLEAN : TileBatch(ok) /\ GenAwait /\ UNCHANGED <<callVars, response, geo, appVars>>
    \/ \E ok \in BOOLEAN : StitchDone(ok) /\ GenAwait /\ UNCHANGED <<callVars, response, geo, appVars>>

SpecGen == GenInit /\ [][GenNext]_vars

\* --------------------------------------------------------------- SpecHas

\* The token cache when hasImageryAt is called: empty, or filled by an earlier
\* exchange with a token that is still valid.
HasInit ==
    /\ now = 0
    /\ \/ /\ cachedToken = NoToken
          /\ tokenExpiresAt = 0
          /\ tokenRequests = 0
       \/ /\ cachedToken = 1
          /\ tokenExpiresAt = NewExpiry(0, 3600)
          /\ tokenRequests = 1
    /\ CallerInit /\ PipeInit /\ CallInit
    /\ gen = NoGen
    /\ geo = GeoInput(0, 0, 0, 1)
    /\ AppInit

\* hasImageryAt, lines 489-490, into discoverOrthoImage, line 190.
HasStart(lat) ==
    /\ has.pc = "idle"
    /\ pc = "idle"
    /\ has' = [has EXCEPT !.pc = "discovering"]
    /\ latitude' = lat
    /\ Acquire("discTok", "discWait", "discovery")
    /\ UNCHANGED <<now, cachedToken, tokenExpiresAt, callerVars, gridSize, discovery,
                   tiles, stitch, image, result, authFailed, options, zoom>>

\* discoverOrthoImage, lines 229-245, as hasImageryAt calls it: a qualifying
\* capture is returned to hasImageryAt; otherwise discoverOrthomosaic is entered.
HasDiscoveryOk(data) ==
    /\ pc = "discWait"
    /\ LET caps == CapturesOf(data)
           i == FirstQualifying(caps)
       IN IF i # 0
          THEN /\ discovery' = OrthoResult(caps[i])
               /\ pc' = "done"
               /\ UNCHANGED <<bearer, tokenRequests, log>>
          ELSE /\ Acquire("mosTok", "mosWait", "orthomosaic")
               /\ UNCHANGED discovery
    /\ UNCHANGED <<now, cachedToken, tokenExpiresAt, callerVars,
                   gridSize, tiles, stitch, image, result, authFailed>>

\* discoverOrthomosaic, lines 287-297, as hasImageryAt reaches it.
HasOrthomosaicOk(data) ==
    /\ pc = "mosWait"
    /\ IF OrthomosaicHit(data)
       THEN /\ discovery' = OrthomosaicResult(data)
            /\ pc' = "done"
            /\ UNCHANGED result
       ELSE /\ ReturnNone
            /\ UNCHANGED discovery
    /\ UNCHANGED <<tokVars, callerVars, gridSize, bearer, tiles, stitch, image,
                   authFailed, log>>

\* A catch that passes the exception on to the caller.
HasImageryRethrowing(disc, res) ==
    IF res.kind = "exception" THEN [pc |-> "threw", value |-> FALSE]
    ELSE [pc |-> "returned", value |-> disc.kind # "none"]

\* hasImageryAt, lines 490-494: result !== null, or false from the catch.
HasImageryResumed(disc, res) ==
    IF res.kind = "exception" THEN [pc |-> "returned", value |-> FALSE]
    ELSE [pc |-> "returned", value |-> disc.kind # "none"]

\* What the step that ends discoverOrthoImage resumes in hasImageryAt.
HasAwait ==
    has' = IF has.pc = "discovering" /\ pc' = "done"
           THEN HasImageryResumed(discovery', result') ELSE has

\* One call of hasImageryAt under every rank/location and orthomosaic body,
\* with the clock running.
HasNext ==
    \/ \E lat \in Latitudes : HasStart(lat) /\ UNCHANGED <<response, gen, geo, world, inv, srv, client, proposal>>
    \/ StageExchangeOk /\ HasAwait /\ UNCHANGED <<callVars, response, gen, geo, world, inv, srv, client, proposal>>
    \/ StageExchangeFail /\ HasAwait /\ UNCHANGED <<callVars, response, gen, geo, world, inv, srv, client, proposal>>
    \/ DiscoveryNotOk /\ HasAwait /\ UNCHANGED <<callVars, response, gen, geo, world, inv, srv, client, proposal>>
    \/ \E data \in DiscoveryData :
          HasDiscoveryOk(data) /\ HasAwait /\ response' = data /\ UNCHANGED <<callVars, gen, geo, world, inv, srv, client, proposal>>
    \/ OrthomosaicNotOk /\ HasAwait /\ UNCHANGED <<callVars, response, gen, geo, world, inv, srv, client, proposal>>
    \/ \E data \in OrthomosaicData :
          HasOrthomosaicOk(data) /\ HasAwait /\ UNCHANGED <<callVars, response, gen, geo, world, inv, srv, client, proposal>>
    \/ Tick /\ UNCHANGED <<callerVars, pipeVars, callVars, response, gen, geo, appVars>>

SpecHas == HasInit /\ [][HasNext]_vars

\* -------------------------------------------------------------- SpecPair

\* Two invocations of getPropertyAerialImage, for two points, with gridSize 1
\* and the default zoom, start from an empty token cache and run interleaved at
\* their awaits; the provider answers each request by what it has for the point.
PairInit ==
    /\ TokInit /\ CallerInit /\ PipeInit /\ CallInit
    /\ gen = NoGen
    /\ geo = GeoInput(0, 0, 0, 1)
    /\ has = NoHas
    /\ world \in Worlds
    /\ inv = [i \in Invocations |-> NoInvocation]
    /\ srv = NoRequest
    /\ client = ClientInit
    /\ proposal = ParsedProposal("Phoenix", 0, 0)

\* The latitude of the point of invocation i.
PointLatitude(i) == IF i = 1 THEN 0 ELSE 33

\* A discovery kept in one module-level slot that the latest writer wins.
DiscoveryOfLatest(i) ==
    IF inv[3 - i].discovery.kind # "none" THEN inv[3 - i].discovery ELSE inv[i].discovery

\* getPropertyAerialImage, line 434: discovery is a local of the invocation.
DiscoveryOf(i) == inv[i].discovery

\* getPropertyAerialImage, lines 443 and 454-470, for gridSize 1 at the default
\* zoom.
PairResultOf(i, disc) ==
    [kind |-> "image",
     imageData |-> <<"jpeg", disc.imageUrn, EffectiveZoom(DefaultZoom, disc)>>,
     mimeType |-> "image/jpeg",
     source |-> "eagleview",
     imageUrn |-> disc.imageUrn,
     captureDate |-> disc.captureDate,
     gsdMeters |-> disc.gsdMeters,
     zoomLevel |-> EffectiveZoom(DefaultZoom, disc),
     tileCount |-> 1,
     coverageMeters |->
         MathRound(Times256(Times(MetersPerPixel(PointLatitude(i),
                                                  EffectiveZoom(DefaultZoom, disc)), 1)))]

\* const token = await getAccessToken() of a stage of invocation i: the cached
\* token if valid (line 110), its own exchange otherwise (line 118).
PairAcquire(i, stage, disc) ==
    IF TokenValid(cachedToken, tokenExpiresAt, now)
    THEN /\ inv' = [inv EXCEPT ![i].pc = stage, ![i].token = cachedToken,
                               ![i].discovery = disc]
         /\ UNCHANGED tokenRequests
    ELSE /\ inv' = [inv EXCEPT ![i].pc = stage \o "Tok", ![i].req = tokenRequests + 1,
                               ![i].discovery = disc]
         /\ tokenRequests' = tokenRequests + 1

\* getPropertyAerialImage, lines 422-434, into discoverOrthoImage.
PairStart(i) ==
    /\ inv[i].pc = "idle"
    /\ PairAcquire(i, "rank", NoDiscovery)
    /\ UNCHANGED <<now, cachedToken, tokenExpiresAt>>

\* getAccessToken, lines 127-137, of a stage of invocation i: the exchange is
\* granted, the cache written and the stage's request sent; or it is refused
\* and the throw ends the invocation.
PairExchange(i) ==
    /\ inv[i].pc \in {"rankTok", "mosaicTok", "tileTok"}
    /\ IF world.tokenUp
       THEN /\ CacheWrite(inv[i].req, world.expiresIn)
            /\ inv' = [inv EXCEPT ![i].token = inv[i].req,
                                  ![i].pc = IF inv[i].pc = "rankTok" THEN "rank"
                                            ELSE IF inv[i].pc = "mosaicTok" THEN "mosaic"
                                            ELSE "tile"]
       ELSE /\ inv' = [inv EXCEPT ![i].pc = "done", ![i].result = [kind |-> "exception"]]
            /\ UNCHANGED <<cachedToken, tokenExpiresAt>>
    /\ UNCHANGED <<now, tokenRequests>>

\* discoverOrthoImage, lines 229-245, then fetchPropertyImage and fetchTile up
\* to their first await (lines 443-452, 347-366, 309).
PairRank(i) ==
    /\ inv[i].pc = "rank"
    /\ LET caps == CapturesOf(RankBody(i, world.imagery[i]))
           k == FirstQualifying(caps)
       IN IF k # 0
          THEN PairAcquire(i, "tile", OrthoResult(caps[k]))
          ELSE PairAcquire(i, "mosaic", NoDiscovery)
    /\ UNCHANGED <<now, cachedToken, tokenExpiresAt>>

\* discoverOrthomosaic, lines 287-297, then as above or the return of null
\* (lines 435-440).
PairMosaic(i) ==
    /\ inv[i].pc = "mosaic"
    /\ LET data == MosaicBody(i, world.imagery[i])
       IN IF OrthomosaicHit(data)
          THEN PairAcquire(i, "tile", OrthomosaicResult(data))
          ELSE /\ inv' = [inv EXCEPT ![i].pc = "done", ![i].result = [kind |-> "none"]]
               /\ UNCHANGED tokenRequests
    /\ UNCHANGED <<now, cachedToken, tokenExpiresAt>>

\* fetchTile, lines 320-325, fetchPropertyImage, lines 368-379, and
\* getPropertyAerialImage, lines 454-470: the one tile, or null.
PairTile(i) ==
    /\ inv[i].pc = "tile"
    /\ inv' = [inv EXCEPT ![i].pc = "done",
                          ![i].result = IF world.tile[i]
                                        THEN PairResultOf(i, DiscoveryOf(i))
                                        ELSE [kind |-> "none"]]
    /\ UNCHANGED tokVars

PairNext ==
    \E i \in Invocations :
        \/ PairStart(i) /\ UNCHANGED <<callerVars, pipeVars, callVars, response, gen, geo, has, world, srv, client, proposal>>
        \/ PairExchange(i) /\ UNCHANGED <<callerVars, pipeVars, callVars, response, gen, geo, has, world, srv, client, proposal>>
        \/ PairRank(i) /\ UNCHANGED <<callerVars, pipeVars, callVars, response, gen, geo, has, world, srv, client, proposal>>
        \/ PairMosaic(i) /\ UNCHANGED <<callerVars, pipeVars, callVars, response, gen, geo, has, world, srv, client, proposal>>
        \/ PairTile(i) /\ UNCHANGED <<callerVars, pipeVars, callVars, response, gen, geo, has, world, srv, client, proposal>>

SpecPair == PairInit /\ [][PairNext]_vars

\* --------------------------------------------------------------- SpecSrv

\* The longest address text that is followed.
MaxAddress == 6

\* Texts of blanks and other characters, up to MaxAddress long.
Texts == UNION {[1..n -> {" ", "x"}] : n \in 0..MaxAddress}

\* The address field of a request body: missing, a number, or a string.
Addresses ==
    {NoAddress}
        \cup {[kind |-> "number", num |-> n, text |-> <<>>] : n \in {0, 12345}}
        \cup {[kind |-> "string", num |-> 0, text |-> t] : t \in Texts}

\* String.prototype.trim: the text without its leading and trailing blanks.
RECURSIVE TrimStart(_)
TrimStart(t) == IF t # <<>> /\ Head(t) = " " THEN TrimStart(Tail(t)) ELSE t

RECURSIVE TrimEnd(_)
TrimEnd(t) ==
    IF t # <<>> /\ t[Len(t)] = " " THEN TrimEnd(SubSeq(t, 1, Len(t) - 1)) ELSE t

Trim(t) == TrimEnd(TrimStart(t))

\* !address: undefined, 0 and the empty string are falsy.
Falsy(a) ==
    \/ a.kind = "missing"
    \/ a.kind = "number" /\ a.num = 0
    \/ a.kind = "string" /\ a.text = <<>>

\* server.ts, line 17, and api/generate.ts, line 12.
InvalidAddress(a) ==
    Falsy(a) \/ a.kind # "string" \/ Len(Trim(a.text)) < 5

\* What an error message contains: "429", "RESOURCE_EXHAUSTED", "API key".
Messages == [has429 : BOOLEAN, exhausted : BOOLEAN, apiKey : BOOLEAN]

\* server.ts, lines 40-47, and api/generate.ts, lines 33-40.
StatusOf(msg) ==
    IF msg.has429 \/ msg.exhausted THEN 429
    ELSE IF msg.apiKey THEN 401
    ELSE 500

\* res.status(code).json(...) or res.json(...): one more response is sent.
Respond(r, code) ==
    [r EXCEPT !.pc = "responded", !.status = code, !.responses = @ + 1]

\* The catch block of either handler on an error with message msg.
Caught(r, msg) == Respond([r EXCEPT !.thrown = TRUE, !.message = msg], StatusOf(msg))

\* The requests an entry point is invoked with. app.post routes only POST
\* requests to the Express handler, behind express.json; the Vercel function
\* is invoked for every method, with req.body undefined when no body was parsed.
Requests ==
    {[NoRequest EXCEPT !.entry = e, !.method = m, !.body = b, !.address = a] :
        e \in {"express", "vercel"}, m \in {"POST", "GET"}, b \in BOOLEAN, a \in Addresses}

Routed(r) ==
    /\ r.entry = "express" => r.method = "POST" /\ r.body
    /\ ~r.body => r.address = NoAddress

\* The handler up to its response or to the await of generateProposal
\* (server.ts, lines 13-33; api/generate.ts, lines 4-27). Destructuring an
\* undefined req.body throws a TypeError inside the try, whose message has none
\* of the three markers.
Receive(r) ==
    /\ srv.pc = "idle"
    /\ Routed(r)
    /\ srv' = IF r.entry = "vercel" /\ r.method # "POST" THEN Respond(r, 405)
              ELSE IF ~r.body THEN Caught(r, NoMessage)
              ELSE IF InvalidAddress(r.address) THEN Respond(r, 400)
              ELSE [r EXCEPT !.pc = "awaiting", !.called = TRUE,
                             !.argument = Trim(r.address.text)]

\* generateProposal returned a proposal: res.json(proposal).
Generated ==
    /\ srv.pc = "awaiting"
    /\ srv' = Respond(srv, 200)

\* generateProposal threw an error with message msg.
GenerateThrew(msg) ==
    /\ srv.pc = "awaiting"
    /\ srv' = Caught(srv, msg)

SrvNext ==
    \/ \E r \in Requests :
          Receive(r) /\ UNCHANGED <<tokVars, callerVars, pipeVars, callVars, response, gen, geo, has, world, inv, client, proposal>>
    \/ Generated /\ UNCHANGED <<tokVars, callerVars, pipeVars, callVars, response, gen, geo, has, world, inv, client, proposal>>
    \/ \E msg \in Messages :
          GenerateThrew(msg) /\ UNCHANGED <<tokVars, callerVars, pipeVars, callVars, response, gen, geo, has, world, inv, client, proposal>>

SpecSrv == Init /\ [][SrvNext]_vars

\* ------------------------------------------------------------ SpecClient

\* The most line items of a proposal, and the most requests in flight.
MaxItems == 2
MaxPending == 1

\* Amounts are in thousandths of a dollar, so that the 8.6 % tax is exact.
Dollars(n) == n * 1000

\* What /api/generate may answer with: up to MaxItems line items, the k-th with
\* a totalPrice of 200 k dollars, and the rebateInfo generateProposal attached.
ItemsOf(n) == [k \in 1..n |-> Dollars(200 * k)]
RebateInfos ==
    {NoRebate,
     [eligible |-> TRUE, estimatedRebate |-> Dollars(500)],
     [eligible |-> TRUE, estimatedRebate |-> Dollars(1500)]}
Proposals ==
    [loaded : {TRUE},
     items : {ItemsOf(n) : n \in 0..MaxItems},
     rebateInfo : RebateInfos]

\* Array.prototype.indexOf: the 0-based position of x in s, or -1.
IndexOf(s, x) ==
    IF \E k \in DOMAIN s : s[k] = x
    THEN (CHOOSE k \in DOMAIN s : s[k] = x /\ \A j \in 1..(k - 1) : s[j] # x) - 1
    ELSE -1

\* Array.prototype.splice(pos, 1): s without the element at 0-based pos.
Splice(s, pos) == SubSeq(s, 1, pos) \o SubSeq(s, pos + 2, Len(s))

\* Array.prototype.sort((a, b) => a - b), as an insertion sort.
RECURSIVE Insert(_, _)
Insert(s, x) ==
    IF s = <<>> THEN <<x>>
    ELSE IF x - Head(s) < 0 THEN <<x>> \o s
    ELSE <<Head(s)>> \o Insert(Tail(s), x)

RECURSIVE SortAscending(_)
SortAscending(s) ==
    IF s = <<>> THEN <<>> ELSE Insert(SortAscending(SubSeq(s, 1, Len(s) - 1)), s[Len(s)])

\* A toggle that pushes without sorting.
ToggledUnsorted(enabled, index) ==
    IF IndexOf(enabled, index) >= 0 THEN Splice(enabled, IndexOf(enabled, index))
    ELSE <<index>> \o enabled

\* toggleLineItem, lines 97-103: enabledItems after the call.
Toggled(enabled, index) ==
    IF IndexOf(enabled, index) >= 0 THEN Splice(enabled, IndexOf(enabled, index))
    ELSE SortAscending(Append(enabled, index))

\* getEnabledItems, lines 23-26: the prices of the enabled items, the indices
\* that name no item filtered out.
RECURSIVE FilterItems(_, _)
FilterItems(enabled, items) ==
    IF enabled = <<>> THEN <<>>
    ELSE IF Head(enabled) + 1 \in DOMAIN items
    THEN <<items[Head(enabled) + 1]>> \o FilterItems(Tail(enabled), items)
    ELSE FilterItems(Tail(enabled), items)

GetEnabledItems(c) ==
    IF ~c.proposal.loaded THEN <<>> ELSE FilterItems(c.enabledItems, c.proposal.items)

RECURSIVE Sum(_)
Sum(s) == IF s = <<>> THEN 0 ELSE Head(s) + Sum(Tail(s))

\* Math.max(0, v).
Max0(v) == IF v > 0 THEN v ELSE 0

\* calcTotals, lines 28-36.
CalcTotals(c) ==
    LET subtotal == Sum(GetEnabledItems(c))
        rebate == IF c.proposal.rebateInfo.eligible
                  THEN c.proposal.rebateInfo.estimatedRebate ELSE 0
        taxable == Max0(subtotal - rebate)
        tax == (taxable * 86) \div 1000
    IN [subtotal |-> subtotal, rebate |-> rebate, tax |-> tax,
        net |-> subtotal - rebate + tax]

\* renderSidebar and renderMobileBar, lines 298-321 and 369-375: the totals are
\* computed at step 2 when an item is enabled.
RenderedStep2(c) ==
    IF c.step = 2 /\ Len(GetEnabledItems(c)) > 0
    THEN [c EXCEPT !.totals = CalcTotals(c)] ELSE c

\* render, lines 177-187, with renderStep3, lines 395-401.
Rendered(c) ==
    IF c.step = 3 /\ c.proposal.loaded THEN [c EXCEPT !.totals = CalcTotals(c)]
    ELSE RenderedStep2(c)

\* generateEstimate, lines 39-80, with an address of 5 characters or more: the
\* request is sent.
GenerateEstimate ==
    /\ client.pending < MaxPending
    /\ client' = [client EXCEPT !.pending = @ + 1, !.last = "generateEstimate", !.arg = 0]

\* generateEstimate, lines 77-92: the response. A success one replaces the
\* proposal, enables every item and shows step 2; any other shows an error.
EstimateResponse(ok, p) ==
    /\ client.pending > 0
    /\ client' =
          IF ok
          THEN Rendered([client EXCEPT !.pending = @ - 1,
                                       !.last = "response", !.arg = 1,
                                       !.proposal = p,
                                       !.enabledItems = [k \in 1..Len(p.items) |-> k - 1],
                                       !.step = 2])
          ELSE [client EXCEPT !.pending = @ - 1, !.last = "response", !.arg = 0]

\* toggleLineItem, lines 96-108.
ToggleLineItem(index) ==
    client' = RenderedStep2([client EXCEPT !.enabledItems = Toggled(@, index),
                                         !.last = "toggleLineItem", !.arg = index])

\* goToStep, lines 16-21.
GoToStep(n) ==
    client' =
       IF n = 3 /\ (~client.proposal.loaded \/ Len(GetEnabledItems(client)) = 0)
       THEN [client EXCEPT !.last = "goToStep", !.arg = n]
       ELSE Rendered([client EXCEPT !.step = n, !.last = "goToStep", !.arg = n])

\* A reset that keeps the uploaded image.
StartOverKeepingImage ==
    client' = Rendered([client EXCEPT !.step = 1, !.proposal = NoProposal,
                                    !.enabledItems = <<>>,
                                    !.last = "startOver", !.arg = 0])

\* startOver, lines 511-525.
StartOver ==
    client' = Rendered([client EXCEPT !.step = 1, !.proposal = NoProposal,
                                    !.enabledItems = <<>>, !.imageData = FALSE,
                                    !.last = "startOver", !.arg = 0])

\* setupImageUpload, lines 153-170: an image is read, or removed.
ImageChanged(present) ==
    /\ client.imageData # present
    /\ client' = [client EXCEPT !.imageData = present, !.last = "image", !.arg = 0]

ClientNext ==
    \/ GenerateEstimate /\ UNCHANGED <<tokVars, callerVars, pipeVars, callVars, response, gen, geo, has, world, inv, srv, proposal>>
    \/ \E ok \in BOOLEAN, p \in Proposals :
          EstimateResponse(ok, p) /\ UNCHANGED <<tokVars, callerVars, pipeVars, callVars, response, gen, geo, has, world, inv, srv, proposal>>
    \/ \E index \in 0..MaxItems :
          ToggleLineItem(index) /\ UNCHANGED <<tokVars, callerVars, pipeVars, callVars, response, gen, geo, has, world, inv, srv, proposal>>
    \/ \E n \in 1..3 :
          GoToStep(n) /\ UNCHANGED <<tokVars, callerVars, pipeVars, callVars, response, gen, geo, has, world, inv, srv, proposal>>
    \/ StartOver /\ UNCHANGED <<tokVars, callerVars, pipeVars, callVars, response, gen, geo, has, world, inv, srv, proposal>>
    \/ \E present \in BOOLEAN :
          ImageChanged(present) /\ UNCHANGED <<tokVars, callerVars, pipeVars, callVars, response, gen, geo, has, world, inv, srv, proposal>>

SpecClient == Init /\ [][ClientNext]_vars

\* ------------------------------------------------------------ SpecRebate

\* REBATE_PROGRAMS, src/geminiService.ts, lines 44-96: perSqFt and maxRebate of
\* each city, in tenths of a dollar.
RebatePrograms ==
    [c \in {"Scottsdale", "Glendale", "Chandler", "Tempe", "Mesa", "Phoenix",
            "Gilbert", "Peoria"} |->
        IF c = "Scottsdale" THEN [perSqFt |-> 20, maxRebate |-> 50000]
        ELSE IF c = "Glendale" THEN [perSqFt |-> 15, maxRebate |-> 30000]
        ELSE IF c \in {"Chandler", "Tempe"} THEN [perSqFt |-> 15, maxRebate |-> 20000]
        ELSE IF c = "Mesa" THEN [perSqFt |-> 10, maxRebate |-> 20000]
        ELSE [perSqFt |-> 10, maxRebate |-> 15000]]

\* The cities the case-insensitive match of lines 348-351 yields: the ones
\* with a program, ones without, and one in the spelling of the site text.
Cities == DOMAIN RebatePrograms \cup {"Surprise", "Paradise Valley", "scottsdale"}

\* existingGrassSqFt of the parsed proposal (Absent: the field is missing), and
\* its totalEstimate.
GrassAreas == {Absent, -50, 0, 1, 999, 1500, 2001, 2500, 4000}
TotalEstimates == {88000, 243500}

\* Math.min.
MathMin(a, b) == IF a < b THEN a ELSE b

\* A rebate that is not capped.
EstimateRebateUncapped(city, grassSqFt) ==
    IF city \notin DOMAIN RebatePrograms \/ grassSqFt <= 0
    THEN [eligible |-> FALSE, estimatedRebate |-> 0]
    ELSE [eligible |-> TRUE, estimatedRebate |-> grassSqFt * RebatePrograms[city].perSqFt]

\* estimateRebate, lines 99-120.
EstimateRebate(city, grassSqFt) ==
    IF city \notin DOMAIN RebatePrograms \/ grassSqFt <= 0
    THEN [eligible |-> FALSE, estimatedRebate |-> 0]
    ELSE [eligible |-> TRUE,
          estimatedRebate |-> MathMin(grassSqFt * RebatePrograms[city].perSqFt,
                                      RebatePrograms[city].maxRebate)]

RebateInit ==
    /\ TokInit /\ CallerInit /\ PipeInit /\ CallInit
    /\ gen = NoGen
    /\ geo = GeoInput(0, 0, 0, 1)
    /\ has = NoHas
    /\ world = NoWorld
    /\ inv = [i \in Invocations |-> NoInvocation]
    /\ srv = NoRequest
    /\ client = ClientInit
    /\ proposal \in {ParsedProposal(c, g, t) : c \in Cities, g \in GrassAreas, t \in TotalEstimates}

\* generateProposal, lines 530-552: the rebate of the detected city and the grass
\* area is attached, and the net estimate computed.
Enrich ==
    /\ proposal.pc = "parsed"
    /\ LET r == EstimateRebate(proposal.city, OrDefault(proposal.existingGrassSqFt, 0))
       IN proposal' = [proposal EXCEPT !.pc = "enriched",
                                   !.eligible = r.eligible,
                                   !.estimatedRebate = r.estimatedRebate,
                                   !.netEstimateAfterRebate =
                                       proposal.totalEstimate - OrDefault(r.estimatedRebate, 0)]
    /\ UNCHANGED <<tokVars, callerVars, pipeVars, callVars, response, gen, geo,
                   has, world, inv, srv, client>>

RebateNext == Enrich

SpecRebate == RebateInit /\ [][RebateNext]_vars

\* ---------------------------------------------------------------- SpecFn

\* The points, zooms and grids the tile mathematics is applied to: latitudes
\* inside the Mercator range, longitudes up to the antimeridian, every zoom
\* of [0, 22].
GeoLatitudes == {-84, 0, 33, 84}
GeoLongitudes == {-180, -112, 0, 179}
Zooms == 0..22
GeoGrids == {1, 2, 3}

FnInit ==
    /\ TokInit /\ CallerInit /\ PipeInit /\ CallInit
    /\ gen = NoGen
    /\ geo \in {GeoInput(lat, lng, z, g) :
                  lat \in GeoLatitudes, lng \in GeoLongitudes, z \in Zooms, g \in GeoGrids}
    /\ AppInit

\* fetchPropertyImage, lines 354-358: tx = center.x + dx, ty = center.y + dy for
\* every offset of the grid.
RequestedTiles(center, g) ==
    {[x |-> center.x + d[1], y |-> center.y + d[2]] : d \in Offsets(g)}

\* fetchPropertyImage, lines 347-358, and tileToLatLng of the centre tile.
FnTiles ==
    /\ geo.pc = "input"
    /\ LET center == LatLngToTile(geo.lat, geo.lng, geo.zoom)
       IN geo' = [geo EXCEPT !.pc = "tiles",
                             !.center = center,
                             !.requested = RequestedTiles(center, geo.gridSize),
                             !.corner = TileToLatLng(center.x, center.y, geo.zoom)]
    /\ UNCHANGED <<tokVars, callerVars, pipeVars, callVars, response, gen, appVars>>

\* getPropertyAerialImage, lines 457-458 and 469.
FnCoverage ==
    /\ geo.pc = "tiles"
    /\ LET mpp == MetersPerPixel(geo.lat, geo.zoom)
       IN geo' = [geo EXCEPT !.pc = "done",
                             !.mpp = mpp,
                             !.coverage = MathRound(Times256(Times(mpp, geo.gridSize)))]
    /\ UNCHANGED <<tokVars, callerVars, pipeVars, callVars, response, gen, appVars>>

FnNext == FnTiles \/ FnCoverage

SpecFn == FnInit /\ [][FnNext]_vars


\* ----------------------------------------------------------------- claims

Waiting == {c \in Callers : cpc[c] = "waiting"}

\* C1: single-flight refresh: before a token is cached (and with no exchange
\* refused), the callers of getAccessToken have issued at most one
\* token-exchange request between them.
C1_SingleExchange ==
    (cachedToken = NoToken /\ \A c \in Callers : cpc[c] # "failed")
        => tokenRequests <= 1

\* C2: callers whose exchanges overlapped all receive the same token, and once
\* the last of them has returned that token is the cached one.
C2_SameToken ==
    \A c, d \in Callers :
        (cpc[c] = "returned" /\ cpc[d] = "returned"
            /\ cgroup[c] # 0 /\ cgroup[c] = cgroup[d])
        => /\ cret[c] = cret[d]
           /\ (Waiting = {} /\ \A x \in Callers : cgroup[x] \in {0, cgroup[c]})
                => cret[c] = cachedToken

\* C3: at the moment getAccessToken returns a token, cached or fresh, the token
\* is more than five minutes from its expiry.
C3_ReturnedOutsideMargin ==
    [][\A c \in Callers :
          (cpc[c] # "returned" /\ cpc'[c] = "returned")
              => now' < tokenExpiresAt' - 300000]_vars

\* C4: a call made while a token is cached and now < expiresAt - 5 min returns
\* that token, sends no token request and leaves the cache as it is.
C4_CachedTokenServed ==
    [][\A c \in Callers :
          (cpc[c] = "idle" /\ cpc'[c] # "idle"
              /\ cachedToken # NoToken /\ now < tokenExpiresAt - 300000)
          => /\ cpc'[c] = "returned"
             /\ cret'[c] = cachedToken
             /\ tokenRequests' = tokenRequests
             /\ cachedToken' = cachedToken
             /\ tokenExpiresAt' = tokenExpiresAt]_vars

C4_Witness ==
    \E c \in Callers :
        /\ cpc[c] = "returned"
        /\ creq[c] = 0
        /\ cret[c] # NoToken
        /\ cret[c] = cachedToken

\* C5: a refused token exchange, at whichever stage, ends getPropertyAerialImage
\* with an exception and never with none.
C5_AuthFailureSurfaces ==
    authFailed # "no" => (pc = "done" /\ result.kind = "exception")

C5_Witness ==
    /\ authFailed = "tile"
    /\ pc = "done"
    /\ result.kind = "exception"

C7_GridSquaredTasks ==
    tiles # <<>> => Cardinality(DOMAIN tiles) = gridSize * gridSize

\* C8: the composite, or the decision to return none, comes only after every
\* launched tile task has settled.
C8_FanInBarrier ==
    (pc = "stitch" \/ image.kind # "none"
        \/ (tiles # <<>> /\ result.kind = "none"))
    => \A d \in DOMAIN tiles : tiles[d].st \in {"ok", "absent", "rejected"}

C8_Witness ==
    /\ pc = "stitch"
    /\ Cardinality(DOMAIN tiles) > 1
    /\ \E d \in DOMAIN tiles : tiles[d].st = "absent"
    /\ \E d \in DOMAIN tiles : tiles[d].st = "ok"

\* C9: a response for one tile, non-success ones included, settles that tile
\* and changes no sibling task, and a tile's recorded outcome, once set, never
\* changes.
C9_TileFailureIsLocal ==
    [][\A d \in DOMAIN tiles :
          /\ (tiles[d].st = "fetch" /\ tiles'[d] # tiles[d])
                => /\ tiles'[d].st \in {"ok", "absent"}
                   /\ \A e \in DOMAIN tiles \ {d} : tiles'[e] = tiles[e]
          /\ tiles[d].st \in {"ok", "absent"} => tiles'[d] = tiles[d]]_vars

C9_Witness ==
    \E d, e, f \in DOMAIN tiles :
        /\ tiles[d].st = "absent"
        /\ tiles[e].st = "fetch"
        /\ tiles[f].st = "ok"

\* Every tile task ended with bytes or absent, at least one of each.
PartialTiles ==
    /\ \A d \in DOMAIN tiles : tiles[d].st \in {"ok", "absent"}
    /\ \E d \in DOMAIN tiles : tiles[d].st = "ok"
    /\ \E d \in DOMAIN tiles : tiles[d].st = "absent"

\* The composite the claim describes: each successful tile at
\* ((dx + half) * 256, (dy + half) * 256), nothing at a failed position.
PlacedTiles ==
    {[input |-> TileBytes(d),
      left |-> (d[1] + gridSize \div 2) * 256,
      top |-> (d[2] + gridSize \div 2) * 256] :
        d \in {x \in DOMAIN tiles : tiles[x].st = "ok"}}

\* C10 as stated: with at least one but not all tile fetches successful,
\* fetchPropertyImage returns a composite of the successful tiles, never none.
C10_PartialAlwaysComposite ==
    (pc = "done" /\ PartialTiles)
        => (image.kind = "composite" /\ image.layers = PlacedTiles)

\* C10, amended: the same, provided the composite/encode step does not fail.
C10_PartialCompositeWhenEncoded ==
    (pc = "done" /\ PartialTiles /\ stitch # "failed")
        => /\ image.kind = "composite"
           /\ image.layers = PlacedTiles
           /\ result.kind = "image"
           /\ result.imageData = image

C10_Witness ==
    /\ pc = "done"
    /\ stitch = "ok"
    /\ Cardinality(DOMAIN tiles) = 9
    /\ Cardinality({d \in DOMAIN tiles : tiles[d].st = "absent"}) = 2
    /\ image.kind = "composite"

\* C11: if every tile fetch of the grid is absent, fetchPropertyImage returns
\* none with no composite attempted, and getPropertyAerialImage returns none.
C11_AllAbsentIsNone ==
    (tiles # <<>> /\ \A d \in DOMAIN tiles : tiles[d].st = "absent")
        => /\ pc = "done"
           /\ stitch = "none"
           /\ image.kind = "none"
           /\ result.kind = "none"

C11_Witness ==
    /\ Cardinality(DOMAIN tiles) = 9
    /\ \A d \in DOMAIN tiles : tiles[d].st = "absent"
    /\ result.kind = "none"

\* C12: discoverOrthoImage returns none only after both strategies were tried:
\* whenever the invocation ends in none for want of a discovery result, the
\* orthomosaic search was issued after the rank/location request.
C12_NoneAfterBothStrategies ==
    (pc = "done" /\ result.kind = "none" /\ discovery.kind = "none")
        => \E i, j \in DOMAIN log :
              /\ i < j
              /\ log[i].req = "discovery"
              /\ log[j].req = "orthomosaic"

\* The captures of the parsed rank/location body.
Captures == response.captures

\* Capture i of the parsed body has a non-empty ortho image list.
HasOrthos(i) == Captures[i].orthos.present /\ Captures[i].orthos.images # <<>>

\* C13: discoverOrthoImage returns the first ortho image urn and the start_date
\* of the first capture, in response order, whose ortho image list is
\* non-empty, skipping captures with null or empty orthos, and issues no
\* orthomosaic search when there is such a capture.
C13_FirstQualifyingCapture ==
    \A i \in DOMAIN Captures :
        (HasOrthos(i) /\ \A j \in 1..(i - 1) : ~HasOrthos(j))
        => /\ discovery.kind = "ortho"
           /\ discovery.imageUrn = Captures[i].orthos.images[1].urn
           /\ discovery.captureDate = Captures[i].start_date
           /\ \A k \in DOMAIN log : log[k].req # "orthomosaic"

C13_Witness ==
    /\ Len(Captures) = 2
    /\ ~Captures[1].orthos.present
    /\ HasOrthos(2)
    /\ Captures[2].start_date # Captures[1].start_date
    /\ discovery.captureDate = Captures[2].start_date
    /\ result.kind = "image"

\* C14: whenever calculated_gsd.value or zoom_range.maximum_zoom_level is
\* present in the selected image, 0 included, discoverOrthoImage returns the
\* provider's value; the defaults 0.02 m and 21 stand in only for an absent
\* field.
C14_DefaultsOnlyWhenAbsent ==
    \A i \in DOMAIN Captures :
        (discovery.kind = "ortho" /\ HasOrthos(i)
            /\ Captures[i].orthos.images[1].urn = discovery.imageUrn)
        => LET img == Captures[i].orthos.images[1]
           IN /\ discovery.gsdMeters = IF img.gsd = -1 THEN 20 ELSE img.gsd
              /\ discovery.maxZoom = IF img.maxZoom = -1 THEN 21 ELSE img.maxZoom

\* C15: a result of the orthomosaic fallback is exactly the first orthomosaic's
\* urn with captureDate "unknown", gsdMeters 0.02 and maxZoom 21, and a
\* discovery result has captureDate "unknown" if and only if the fallback
\* produced it.
C15_FallbackRecord ==
    /\ discovery.kind = "orthomosaic"
        => /\ discovery.imageUrn = 7
           /\ discovery.captureDate = "unknown"
           /\ discovery.gsdMeters = 20
           /\ discovery.maxZoom = 21
    /\ discovery.kind # "none"
        => (discovery.captureDate = "unknown" <=> discovery.kind = "orthomosaic")
    /\ discovery.kind = "orthomosaic"
        => /\ \E i \in DOMAIN log : log[i].req = "orthomosaic"
           /\ result.kind = "image" => result.captureDate = "unknown"

C15_Witness ==
    /\ discovery.kind = "orthomosaic"
    /\ result.kind = "image"
    /\ result.captureDate = "unknown"

\* The smaller of the zoom asked for and the discovery's maxZoom.
ClampedZoom == IF zoom <= discovery.maxZoom THEN zoom ELSE discovery.maxZoom

\* C16: every tile request, the coverage computation and the reported zoomLevel
\* use effectiveZoom = min(zoom, discovery.maxZoom), so that zoomLevel never
\* exceeds discovery.maxZoom.
C16_EffectiveZoomEverywhere ==
    /\ \A i \in DOMAIN log : log[i].req = "tile" => log[i].z = ClampedZoom
    /\ result.kind = "image"
        => /\ result.zoomLevel = ClampedZoom
           /\ result.zoomLevel <= discovery.maxZoom
           /\ result.coverageMeters =
                MathRound(Times256(Times(MetersPerPixel(latitude, ClampedZoom), gridSize)))

C16_Witness ==
    /\ options.zoom = 20
    /\ discovery.maxZoom = 19
    /\ \E i \in DOMAIN log : log[i].req = "tile" /\ log[i].z = 19
    /\ result.kind = "image"
    /\ result.zoomLevel = 19

\* C17: getPropertyAerialImage uses the defaults zoom = 19 and gridSize = 4 only
\* for an omitted option; a zoom in [0, 22] or a gridSize the caller supplies is
\* used as given.
C17_OptionsUsedAsGiven ==
    pc # "idle"
        => /\ zoom = IF options.zoom = -1 THEN 19 ELSE options.zoom
           /\ gridSize = IF options.gridSize = -1 THEN 4 ELSE options.gridSize

\* C18: with no discovery result getPropertyAerialImage returns none and issues
\* no tile request; a tile request is issued only once discovery has a result,
\* and only for the discovered imageUrn.
C18_TilesOnlyForDiscovered ==
    /\ \A i \in DOMAIN log :
          log[i].req = "tile"
            => /\ discovery.kind # "none"
               /\ log[i].urn = discovery.imageUrn
               /\ \E j \in 1..(i - 1) : log[j].req \in {"discovery", "orthomosaic"}
    /\ (pc = "done" /\ discovery.kind = "none" /\ authFailed = "no")
          => /\ result.kind = "none"
             /\ tiles = <<>>
             /\ \A i \in DOMAIN log : log[i].req # "tile"

C18_Witness ==
    /\ pc = "done"
    /\ discovery.kind = "none"
    /\ result.kind = "none"
    /\ \E i \in DOMAIN log : log[i].req = "orthomosaic"

\* C19: the reported tileCount is the number of tiles stitched into the returned
\* image, whatever the gridSize and the pattern of tile failures.
C19_TileCountIsStitched ==
    result.kind = "image"
        => result.tileCount =
              IF image.kind = "composite" THEN Cardinality(image.layers) ELSE 1

C21_SingleTileRaw ==
    (gridSize = 1 /\ tiles # <<>> /\ \A d \in DOMAIN tiles : tiles[d].st = "ok")
        => /\ pc = "done"
           /\ stitch = "none"
           /\ image.kind = "tile"
           /\ image.bytes = <<"jpeg", 0, 0>>
           /\ result.kind = "image"
           /\ result.imageData = image

C21_Witness ==
    /\ gridSize = 1
    /\ DOMAIN tiles = {<<0, 0>>}
    /\ tiles[<<0, 0>>].st = "ok"
    /\ result.kind = "image"
    /\ result.tileCount = 1

\* C22: if the composite/encode step fails, fetchPropertyImage returns the
\* bytes of the centre tile when that tile was fetched and none otherwise; no
\* other tile's bytes are returned and the encoding error is not rethrown.
C22_CompositeFailureFallback ==
    stitch = "failed"
        => /\ pc = "done"
           /\ result.kind # "exception"
           /\ tiles[<<0, 0>>].st = "ok"
                => /\ image.kind = "tile"
                   /\ image.bytes = <<"jpeg", 0, 0>>
                   /\ result.kind = "image"
           /\ tiles[<<0, 0>>].st # "ok"
                => /\ image.kind = "none"
                   /\ result.kind = "none"

C22_Witness ==
    /\ stitch = "failed"
    /\ tiles[<<0, 0>>].st = "absent"
    /\ \E d \in DOMAIN tiles : tiles[d].st = "ok"
    /\ result.kind = "none"

\* C23: the token cache changes only in the step of a successful exchange, and
\* in that step token and expiry are both replaced by the values of that one
\* response, however many refreshes overlap.
C23_CachePairFromOneResponse ==
    [][(cachedToken' # cachedToken \/ tokenExpiresAt' # tokenExpiresAt)
          => \E c \in Callers :
                /\ cpc[c] = "waiting"
                /\ cpc'[c] = "returned"
                /\ cachedToken' = creq[c]
                /\ cret'[c] = creq[c]
                /\ \E e \in ExpiresInChoices : tokenExpiresAt' = now + e * 1000]_vars

C23_Witness ==
    /\ \A c \in Callers : cpc[c] = "returned" /\ creq[c] # 0
    /\ \E c \in Callers : cachedToken # cret[c]
    /\ \E c \in Callers : cachedToken = cret[c]

\* C28 as stated: every tile the compositor places lies inside the canvas of
\* gridSize * 256 pixels a side.
C28_TilesInsideCanvas ==
    image.kind = "composite"
        => \A l \in image.layers :
              /\ 0 <= l.left /\ l.left + 256 <= gridSize * 256
              /\ 0 <= l.top /\ l.top + 256 <= gridSize * 256

\* C30: a refused token exchange leaves cachedToken and tokenExpiresAt as they
\* were, and a call that finds no token, or one within five minutes of expiry,
\* sends a new exchange and returns neither.
C30_FailedExchangeKeepsCache ==
    [][\A c \in Callers :
          /\ (cpc[c] = "waiting" /\ cpc'[c] = "failed")
                => /\ cachedToken' = cachedToken
                   /\ tokenExpiresAt' = tokenExpiresAt
          /\ (cpc[c] = "idle" /\ cpc'[c] # "idle"
                /\ (cachedToken = NoToken \/ now >= tokenExpiresAt - 300000))
                => /\ cpc'[c] = "waiting"
                   /\ tokenRequests' = tokenRequests + 1
                   /\ cret'[c] = NoToken]_vars

C30_Witness ==
    \E c, d, e \in Callers :
        /\ cpc[c] = "failed"
        /\ cpc[d] = "returned" /\ cachedToken = cret[d] /\ creq[d] # 0
        /\ cpc[e] = "waiting" /\ creq[e] > creq[c]

\* C26: at a fixed latitude metersPerPixel at zoom + 1 is strictly less than at
\* zoom, for every zoom of [0, 21], and the coverage of a fixed gridSize does
\* not grow with the zoom.
C26_ResolutionDecreases ==
    (geo.pc = "done" /\ geo.zoom <= 21)
        => /\ Shorter(MetersPerPixel(geo.lat, geo.zoom + 1), geo.mpp)
           /\ MathRound(Times256(Times(MetersPerPixel(geo.lat, geo.zoom + 1), geo.gridSize)))
                <= geo.coverage

C26_Witness ==
    /\ geo.pc = "done"
    /\ geo.lat = 33 /\ geo.zoom = 0 /\ geo.gridSize = 1
    /\ geo.coverage = 33609738

C29_ValidTileIndices ==
    \A t \in geo.requested :
        /\ 0 <= t.x /\ t.x < Pow2(geo.zoom)
        /\ 0 <= t.y /\ t.y < Pow2(geo.zoom)

\* C24: an imagery failure never aborts generateProposal: when
\* getPropertyAerialImage has returned none or thrown, an authentication
\* failure included, generateProposal has gone on to the prompt step with no
\* image and imageSource "none".
C24_ImageryFailureContinues ==
    /\ gen.pc # "aborted"
    /\ pc = "done" => gen.pc = "prompt"
    /\ (pc = "done" /\ result.kind \in {"none", "exception"})
          => /\ gen.imageContent = "none"
             /\ gen.imageSource = "none"

C24_Witness ==
    /\ authFailed # "no"
    /\ result.kind = "exception"
    /\ gen.pc = "prompt"
    /\ gen.imageSource = "none"

\* C25: getPropertyAerialImage is invoked, and a token, discovery or tile
\* request issued, only when no user image was supplied and clientId and
\* clientSecret are both non-empty.
C25_ImageryGate ==
    (pc # "idle" \/ tokenRequests > 0 \/ log # <<>>)
        => /\ ~gen.userImage
           /\ gen.clientId # ""
           /\ gen.clientSecret # ""

C25_Witness ==
    /\ \E i \in DOMAIN log : log[i].req = "tile"
    /\ gen.pc = "prompt"
    /\ gen.imageSource = "eagleview"
    /\ ~gen.location

\* C31: every discovery, orthomosaic and tile request is sent in the step in
\* which the getAccessToken call of its own task returns, and carries the token
\* that call returned: the cached token of a still-valid cache, or the token
\* of the exchange the task itself had sent. None goes out without a token.
C31_BearerFromOwnCall ==
    [][\A k \in (Len(log) + 1)..Len(log') :
          log'[k].req # "token" =>
             /\ log'[k].token # NoToken
             /\ \/ /\ TokenValid(cachedToken, tokenExpiresAt, now)
                   /\ log'[k].token = cachedToken
                \/ /\ log'[k].req \in {"discovery", "orthomosaic"}
                   /\ pc \in {"discTok", "mosTok"}
                   /\ log'[k].token = tokenRequests
                   /\ log'[k].token = cachedToken'
                \/ /\ log'[k].req = "tile"
                   /\ log'[k].at \in DOMAIN tiles
                   /\ tiles[log'[k].at].st = "tok"
                   /\ log'[k].token = tiles[log'[k].at].req
                   /\ log'[k].token = cachedToken']_vars

\* A tile request that carries the token of the tile task's own exchange, after
\* a discovery request that carried another.
C31_Witness ==
    \E i, k \in DOMAIN log :
        /\ i < k
        /\ log[i].req = "discovery"
        /\ log[k].req = "tile"
        /\ log[k].token # log[i].token
        /\ log[k].token # NoToken

\* C32: on a network where requests in flight settle, an invocation that has
\* started ends with a result, none or an exception; it has sent at most one
\* exchange and one request per stage and per tile, and every tile task the
\* join waits on has been launched (its request, or its exchange, was sent).
RequestBound == 2 * (2 + Side(gridSize) * Side(gridSize))

Launched(d) ==
    \/ \E k \in DOMAIN log : log[k].req = "tile" /\ log[k].at = d
    \/ /\ tiles[d].st \in {"tok", "rejected"}
       /\ tiles[d].req \in 1..tokenRequests
       /\ Cardinality({k \in DOMAIN log : log[k].req = "token"}) >= tiles[d].req

C32_Terminates ==
    /\ [](Len(log) <= RequestBound)
    /\ [](pc = "tiles" => /\ DOMAIN tiles = Offsets(gridSize)
                          /\ \A d \in DOMAIN tiles : Launched(d))
    /\ (pc # "idle") ~> (pc = "done" /\ result.kind \in {"image", "none", "exception"})

\* The invocation has ended after a join over several tile tasks, one of which
\* had no tile.
C32_Witness ==
    /\ pc = "done"
    /\ gridSize > 1
    /\ result.kind = "image"
    /\ \E d \in DOMAIN tiles : tiles[d].st = "absent"

\* C33: hasImageryAt never throws; the value it returns is true exactly when
\* discoverOrthoImage came back with a capture or an orthomosaic, and false
\* when discovery came back with none, when a request was refused and when a
\* token exchange failed.
C33_HasImageryNeverThrows ==
    /\ has.pc \in {"idle", "discovering", "returned"}
    /\ pc = "done" => has.pc = "returned"
    /\ has.pc = "returned" =>
          /\ has.value <=> discovery.kind \in {"ortho", "orthomosaic"}
          /\ authFailed # "no" => ~has.value
          /\ result.kind \in {"none", "exception"} => ~has.value

\* hasImageryAt returned false after the exchange of the orthomosaic stage was
\* refused.
C33_Witness ==
    /\ has.pc = "returned"
    /\ ~has.value
    /\ authFailed = "orthomosaic"

\* C34: each of two interleaved invocations for different points, which share
\* the token cache, ends with what it ends with when it is the only one that
\* runs against the same provider: an exception if the token endpoint refuses,
\* none if the point has no imagery or no tile, and otherwise the record built
\* from the point's own capture or orthomosaic.
AloneDiscovery(i) ==
    LET caps == CapturesOf(RankBody(i, world.imagery[i]))
        k == FirstQualifying(caps)
        data == MosaicBody(i, world.imagery[i])
    IN IF k # 0 THEN OrthoResult(caps[k])
       ELSE IF OrthomosaicHit(data) THEN OrthomosaicResult(data)
       ELSE NoDiscovery

Alone(i) ==
    IF ~world.tokenUp THEN [kind |-> "exception"]
    ELSE IF AloneDiscovery(i).kind = "none" \/ ~world.tile[i] THEN [kind |-> "none"]
    ELSE PairResultOf(i, AloneDiscovery(i))

C34_ResultAsWhenAlone ==
    \A i \in Invocations :
        /\ inv[i].pc = "done" => inv[i].result = Alone(i)
        /\ inv[i].pc # "done" => inv[i].result.kind = "pending"

\* Both invocations ended with an image, each of its own point, and the first
\* sent its tile request with the token the second's exchange had cached.
C34_Witness ==
    /\ \A i \in Invocations : inv[i].pc = "done" /\ inv[i].result.kind = "image"
    /\ inv[1].result.imageUrn # inv[2].result.imageUrn
    /\ inv[1].token = inv[2].req
    /\ inv[2].req # 0

\* C35: a request whose address is missing, not a string or shorter than 5
\* characters after trimming is answered with 400 and generateProposal is not
\* called for it; an exception of generateProposal is answered with 429, 401
\* or 500 by its message; every request is answered exactly once.
AddressRejectable ==
    ~srv.body \/ InvalidAddress(srv.address)

C35_InvalidAddressIs400 ==
    srv.pc # "idle" =>
       /\ AddressRejectable => srv.pc = "responded" /\ srv.status = 400 /\ ~srv.called
       /\ srv.pc = "responded" => srv.responses = 1
       /\ (srv.pc = "responded" /\ srv.called /\ srv.thrown) =>
              srv.status = StatusOf(srv.message)

\* C36: step 3 is entered only with a proposal loaded and a line item enabled;
\* a goToStep(3) without them changes nothing of the state object; after
\* startOver the step is 1, the proposal null, enabledItems empty and
\* imageData null.
StateOf(c) == <<c.step, c.proposal, c.enabledItems, c.imageData>>

C36_Step3Guarded ==
    [][/\ (client.step # 3 /\ client'.step = 3) =>
             /\ client.proposal.loaded
             /\ Len(GetEnabledItems(client)) > 0
             /\ client'.last = "goToStep" /\ client'.arg = 3
       /\ (/\ client'.last = "goToStep" /\ client'.arg = 3
           /\ ~(client.proposal.loaded /\ Len(GetEnabledItems(client)) > 0)) =>
             StateOf(client') = StateOf(client)
       /\ client'.last = "startOver" =>
             StateOf(client') = <<1, NoProposal, <<>>, FALSE>>]_vars

\* Step 3 has been entered by goToStep(3), with an image uploaded and totals
\* rendered.
C36_Witness ==
    /\ client.step = 3
    /\ client.last = "goToStep"
    /\ client.arg = 3
    /\ client.totals.subtotal > 0
    /\ client.imageData

\* C37: with a proposal loaded, enabledItems is strictly ascending, and
\* toggling an index twice gives back the enabledItems there were.
StrictlyAscending(s) == \A j, k \in DOMAIN s : j < k => s[j] < s[k]

C37_ToggleKeepsOrder ==
    client.proposal.loaded =>
       /\ StrictlyAscending(client.enabledItems)
       /\ \A index \in 0..MaxItems :
             Toggled(Toggled(client.enabledItems, index), index) = client.enabledItems

\* The first item was switched back on after the higher ones: it was pushed
\* last and sorted to the front.
C37_Witness ==
    /\ client.proposal.loaded
    /\ Len(client.proposal.items) = MaxItems
    /\ client.last = "toggleLineItem"
    /\ client.arg = 0
    /\ Len(client.enabledItems) = MaxItems
    /\ client.enabledItems[1] = 0

\* C38: the net of calcTotals is never negative: the tax is charged on
\* max(0, subtotal - rebate) and net = subtotal - rebate + tax >= 0.
C38_NetNeverNegative ==
    /\ client.totals.tax = (Max0(client.totals.subtotal - client.totals.rebate) * 86) \div 1000
    /\ client.totals.net = client.totals.subtotal - client.totals.rebate + client.totals.tax
    /\ client.totals.net >= 0

\* C39: a city without a program, or a grass area of 0 or less, gives eligible
\* false and a rebate of 0; any other gives eligible true and the smaller of
\* area times the city's rate and the city's maximum, which the rebate never
\* exceeds; the net estimate is the total estimate less the proposal.
GrassArea == IF proposal.existingGrassSqFt = Absent THEN 0 ELSE proposal.existingGrassSqFt

HasProgram ==
    proposal.city \in {"Scottsdale", "Glendale", "Chandler", "Tempe", "Mesa", "Phoenix",
                     "Gilbert", "Peoria"}

C39_RebateCapped ==
    proposal.pc = "enriched" =>
       /\ (~HasProgram \/ GrassArea <= 0) =>
             ~proposal.eligible /\ proposal.estimatedRebate = 0
       /\ (HasProgram /\ GrassArea > 0) =>
             /\ proposal.eligible
             /\ proposal.estimatedRebate <= RebatePrograms[proposal.city].maxRebate
             /\ proposal.estimatedRebate <= GrassArea * RebatePrograms[proposal.city].perSqFt
             /\ \/ proposal.estimatedRebate = RebatePrograms[proposal.city].maxRebate
                \/ proposal.estimatedRebate = GrassArea * RebatePrograms[proposal.city].perSqFt
       /\ proposal.netEstimateAfterRebate = proposal.totalEstimate - proposal.estimatedRebate

\* A lawn large enough for the cap: the rebate is the city's maximum.
C39_Witness ==
    /\ proposal.pc = "enriched"
    /\ proposal.eligible
    /\ proposal.city = "Glendale"
    /\ proposal.estimatedRebate = 30000
    /\ proposal.existingGrassSqFt * 15 > 30000

====
